---------------------------- MODULE Spec2Model ----------------------------
(***************************************************************************)
(* A model of the Progression & Mastery Engine of backend/stratos.py: the  *)
(* request handlers complete_lesson, start_language, refill_hearts and     *)
(* register acting on the two collections users and lesson_progress.       *)
(*                                                                         *)
(* Every handler is a coroutine.  It runs without interruption between two *)
(* awaited store calls, and each store call (find_one, update_one,         *)
(* count_documents, insert_one) is applied by the store as one atomic      *)
(* operation on one document.  One action of the model is therefore one    *)
(* store call together with the synchronous code that follows it up to the *)
(* next store call.  Requests of the same or of different users may        *)
(* interleave at every store call.                                         *)
(***************************************************************************)
EXTENDS Integers, Sequences, FiniteSets, TLC

(***************************************************************************)
(* Bounds of the model.                                                    *)
(***************************************************************************)
\* Midnights (UTC) the clock may pass in a run
MaxDays == 1
\* Days of daily practice the learner "u1" has behind them when the run begins
SeedDays == 1
\* The same for the long-standing learner of SpecVeteran, who registered on
\* FirstDate
VeteranDays == 8
MidDays == 5

\* Days of practice, before the last one, of four learners of long standing:
\* the next completion brings the first to level 5, the second to 500 XP,
\* the third close to level 10, and the fourth to a streak of 30 and 1000 XP
NearLevel5Days == 11

NearXp500Days == 14

NearLevel10Days == 25

NearMonthDays == 28

\* Number of graded items of the longest lesson that is scored
LongLesson == 50

(***************************************************************************)
(* Program constants.                                                      *)
(***************************************************************************)
PASS_PERCENT == 70             \* passed = score_pct >= 70
XP_PER_LEVEL == 100            \* new_level = (new_total_xp // 100) + 1
MAX_STREAK_BONUS == 20         \* min(new_streak * 2, 20)
FULL_HEARTS == 5               \* hearts at registration and after a refill
PROGRESS_LIMIT == 100          \* to_list(100) in get_lessons

(***************************************************************************)
(* Strings.  A Python str is modelled as the tuple of its characters; a    *)
(* character outside printable ASCII is written as its code point         *)
(* ("U221A", "U000A").                                                     *)
(***************************************************************************)
\* The characters of the catalog and of the submissions that str.lower()
\* changes, with what it changes them to
UpperCase ==
  [c \in {"A","B","C","D","E","F","G","H","I","J","K","L","M","N","O","P",
          "Q","R","S","T","U","V","W","X","Y","Z",
          "U00C5","U00C6","U00C7","U00C9","U00CA","U00D8","U00DA","U0191"} |->
     CASE c = "A" -> "a" [] c = "B" -> "b" [] c = "C" -> "c" [] c = "D" -> "d"
       [] c = "E" -> "e" [] c = "F" -> "f" [] c = "G" -> "g" [] c = "H" -> "h"
       [] c = "I" -> "i" [] c = "J" -> "j" [] c = "K" -> "k" [] c = "L" -> "l"
       [] c = "M" -> "m" [] c = "N" -> "n" [] c = "O" -> "o" [] c = "P" -> "p"
       [] c = "Q" -> "q" [] c = "R" -> "r" [] c = "S" -> "s" [] c = "T" -> "t"
       [] c = "U" -> "u" [] c = "V" -> "v" [] c = "W" -> "w" [] c = "X" -> "x"
       [] c = "Y" -> "y" [] c = "Z" -> "z"
       [] c = "U00C5" -> "U00E5" [] c = "U00C6" -> "U00E6" [] c = "U00C7" -> "U00E7"
       [] c = "U00C9" -> "U00E9" [] c = "U00CA" -> "U00EA" [] c = "U00D8" -> "U00F8"
       [] c = "U00DA" -> "U00FA" [] c = "U0191" -> "U0192"]

\* The characters str.strip() removes
Whitespace ==
  {" ", "U0009", "U000A", "U000B", "U000C", "U000D", "U001C", "U001D", "U001E",
   "U001F", "U0085", "U00A0", "U1680", "U2000", "U2001", "U2002", "U2003", "U2004",
   "U2005", "U2006", "U2007", "U2008", "U2009", "U200A", "U2028", "U2029", "U202F",
   "U205F", "U3000"}

\* str.lower()
lower(s) == [i \in 1..Len(s) |-> IF s[i] \in DOMAIN UpperCase THEN UpperCase[s[i]] ELSE s[i]]

\* str.strip(): drops leading and trailing whitespace
RECURSIVE lstrip(_)
lstrip(s) == IF s # <<>> /\ Head(s) \in Whitespace THEN lstrip(Tail(s)) ELSE s

RECURSIVE rstrip(_)
rstrip(s) == IF s # <<>> /\ s[Len(s)] \in Whitespace
             THEN rstrip(SubSeq(s, 1, Len(s) - 1)) ELSE s

\* Only the leading whitespace dropped
stripLeading(s) == lstrip(s)

strip(s) == rstrip(lstrip(s))

(***************************************************************************)
(* Calendar dates.  now.date() is a proleptic Gregorian date <<y, m, d>>;  *)
(* isoformat() writes it as the ten characters "YYYY-MM-DD" and            *)
(* fromisoformat() reads the three numbers back.  None is the empty tuple. *)
(* The difference of two dates is the difference of their ordinals         *)
(* (datetime.date.__sub__).  The time of day is left out: completed_at is  *)
(* modelled by its date.                                                   *)
(***************************************************************************)
None == <<>>

IsLeap(y) == (y % 4 = 0) /\ ((y % 100 # 0) \/ (y % 400 = 0))

DaysInMonth(y, m) ==
  IF m = 2 THEN (IF IsLeap(y) THEN 29 ELSE 28)
  ELSE IF m \in {4, 6, 9, 11} THEN 30 ELSE 31

RECURSIVE DaysBeforeMonth(_, _)
DaysBeforeMonth(y, m) ==
  IF m = 1 THEN 0 ELSE DaysBeforeMonth(y, m - 1) + DaysInMonth(y, m - 1)

DaysBeforeYear(y) ==
  (y - 1) * 365 + ((y - 1) \div 4) - ((y - 1) \div 100) + ((y - 1) \div 400)

\* date.toordinal()
toordinal(d) == DaysBeforeYear(d[1]) + DaysBeforeMonth(d[1], d[2]) + d[3]

\* the date after d (the clock passing midnight UTC)
NextDate(d) ==
  IF d[3] < DaysInMonth(d[1], d[2]) THEN <<d[1], d[2], d[3] + 1>>
  ELSE IF d[2] < 12 THEN <<d[1], d[2] + 1, 1>>
  ELSE <<d[1] + 1, 1, 1>>

\* The UTC date on which the clock reads 0, and the date k midnights later
FirstDate == <<2024, 2, 19>>

\* date.fromordinal(n), for a date within a year of FirstDate
fromordinal(n) ==
  LET y == CHOOSE year \in (FirstDate[1] - 1)..(FirstDate[1] + 1) :
             DaysBeforeYear(year) < n /\ n <= DaysBeforeYear(year + 1)
      m == CHOOSE month \in 1..12 :
             /\ DaysBeforeMonth(y, month) < n - DaysBeforeYear(y)
             /\ n - DaysBeforeYear(y) <= DaysBeforeMonth(y, month) + DaysInMonth(y, month)
  IN  <<y, m, n - DaysBeforeYear(y) - DaysBeforeMonth(y, m)>>

\* The date k midnights after FirstDate (before it, for k < 0)
DateOfDay(k) == fromordinal(toordinal(FirstDate) + k)

\* Decimal digits, as str(int) and int(str) use them
Digits == <<"0", "1", "2", "3", "4", "5", "6", "7", "8", "9">>

DigitValue(c) == (CHOOSE i \in 1..10 : Digits[i] = c) - 1

\* format(n, "0<width>d")
RECURSIVE ZeroPad(_, _)
ZeroPad(n, width) ==
  IF width = 0 THEN <<>>
  ELSE Append(ZeroPad(n \div 10, width - 1), Digits[(n % 10) + 1])

\* int(s) of a string of digits
RECURSIVE ParseInt(_)
ParseInt(s) ==
  IF s = <<>> THEN 0
  ELSE 10 * ParseInt(SubSeq(s, 1, Len(s) - 1)) + DigitValue(s[Len(s)])

\* date.isoformat(): "YYYY-MM-DD"
isoformat(d) == ZeroPad(d[1], 4) \o <<"-">> \o ZeroPad(d[2], 2) \o <<"-">> \o ZeroPad(d[3], 2)

\* datetime.fromisoformat(s).date()
fromisoformat(s) ==
  <<ParseInt(SubSeq(s, 1, 4)), ParseInt(SubSeq(s, 6, 7)), ParseInt(SubSeq(s, 9, 10))>>

(***************************************************************************)
(* Seed data.  LANGUAGES lists the ten language codes.  SAMPLE_LESSONS is  *)
(* the catalog as it stands after the module has been loaded, with the     *)
(* lessons the make_*_lesson functions add to every course that has fewer  *)
(* than six.  A lesson keeps the fields the engine reads: id, language,    *)
(* order, xp_reward and, for each graded item, its correct_answer.         *)
(***************************************************************************)
LANGUAGES == <<"es", "fr", "de", "ja", "zh", "it", "pt", "ko", "ru", "ar">>

ES_LESSONS ==
  <<
     [id |-> "es-basics-1", language |-> "es", order |-> 1, xp_reward |-> 15,
      content |-> <<
          <<"h", "o", "l", "a">>,
          <<"G", "o", "o", "d", " ", "m", "o", "r", "n", "i", "n", "g">>,
          <<"g", "r", "a", "c", "i", "a", "s">>,
          <<"A", "d", "i", "U221A", "U2265", "s">> >>],
     [id |-> "es-basics-2", language |-> "es", order |-> 2, xp_reward |-> 15,
      content |-> <<
          <<"u", "n", "o", " ", "d", "o", "s", " ", "t", "r", "e", "s">>,
          <<"F", "i", "v", "e">>,
          <<"s", "i", "e", "t", "e">>,
          <<"N", "u", "e", "v", "e">> >>],
     [id |-> "es-basics-3", language |-> "es", order |-> 3, xp_reward |-> 20,
      content |-> <<
          <<"r", "o", "j", "o">>,
          <<"B", "l", "u", "e">>,
          <<"v", "e", "r", "d", "e">>,
          <<"Y", "e", "l", "l", "o", "w">> >>],
     [id |-> "es-phrases-4", language |-> "es", order |-> 4, xp_reward |-> 20,
      content |-> <<
          <<"C", "a", "n", " ", "y", "o", "u", " ", "h", "e", "l", "p", " ", "m", "e", "?">>,
          <<"p", "o", "r", " ", "f", "a", "v", "o", "r">>,
          <<"T", "h", "a", "n", "k", " ", "y", "o", "u">> >>],
     [id |-> "es-family-5", language |-> "es", order |-> 5, xp_reward |-> 20,
      content |-> <<
          <<"m", "a", "d", "r", "e">>,
          <<"p", "a", "d", "r", "e">>,
          <<"B", "r", "o", "t", "h", "e", "r">> >>],
     [id |-> "es-travel-6", language |-> "es", order |-> 6, xp_reward |-> 25,
      content |-> <<
          <<"a", "e", "r", "o", "p", "u", "e", "r", "t", "o">>,
          <<"b", "o", "l", "e", "t", "o">>,
          <<"M", "a", "p">> >>]
  >>

FR_LESSONS ==
  <<
     [id |-> "fr-basics-1", language |-> "fr", order |-> 1, xp_reward |-> 15,
      content |-> <<
          <<"b", "o", "n", "j", "o", "u", "r">>,
          <<"T", "h", "a", "n", "k", " ", "y", "o", "u">>,
          <<"a", "u", " ", "r", "e", "v", "o", "i", "r">>,
          <<"S", "'", "i", "l", " ", "v", "o", "u", "s", " ", "p", "l", "a", "U221A", "U00C6", "t">> >>],
     [id |-> "fr-numbers-2", language |-> "fr", order |-> 2, xp_reward |-> 15,
      content |-> <<
          <<"u", "n", " ", "d", "e", "u", "x", " ", "t", "r", "o", "i", "s">>,
          <<"T", "h", "r", "e", "e">>,
          <<"c", "i", "n", "q">> >>],
     [id |-> "fr-colors-3", language |-> "fr", order |-> 3, xp_reward |-> 15,
      content |-> <<
          <<"r", "o", "u", "g", "e">>,
          <<"B", "l", "u", "e">>,
          <<"v", "e", "r", "t">> >>],
     [id |-> "fr-phrases-4", language |-> "fr", order |-> 4, xp_reward |-> 20,
      content |-> <<
          <<"C", "a", "n", " ", "y", "o", "u", " ", "h", "e", "l", "p", " ", "m", "e", "?">>,
          <<"s", "'", "i", "l", " ", "v", "o", "u", "s", " ", "p", "l", "a", "U221A", "U00C6", "t">>,
          <<"T", "h", "a", "n", "k", " ", "y", "o", "u">> >>],
     [id |-> "fr-family-5", language |-> "fr", order |-> 5, xp_reward |-> 20,
      content |-> <<
          <<"m", "U221A", "U00AE", "r", "e">>,
          <<"p", "U221A", "U00AE", "r", "e">>,
          <<"B", "r", "o", "t", "h", "e", "r">> >>],
     [id |-> "fr-travel-6", language |-> "fr", order |-> 6, xp_reward |-> 25,
      content |-> <<
          <<"a", "U221A", "U00A9", "r", "o", "p", "o", "r", "t">>,
          <<"b", "i", "l", "l", "e", "t">>,
          <<"M", "a", "p">> >>]
  >>

DE_LESSONS ==
  <<
     [id |-> "de-basics-1", language |-> "de", order |-> 1, xp_reward |-> 15,
      content |-> <<
          <<"g", "u", "t", "e", "n", " ", "t", "a", "g">>,
          <<"T", "h", "a", "n", "k", " ", "y", "o", "u">>,
          <<"a", "u", "f", " ", "w", "i", "e", "d", "e", "r", "s", "e", "h", "e", "n">>,
          <<"G", "u", "t", "e", "n", " ", "M", "o", "r", "g", "e", "n">> >>],
     [id |-> "de-numbers-2", language |-> "de", order |-> 2, xp_reward |-> 15,
      content |-> <<
          <<"e", "i", "n", "s", " ", "z", "w", "e", "i", " ", "d", "r", "e", "i">>,
          <<"T", "h", "r", "e", "e">>,
          <<"f", "U221A", "U00BA", "n", "f">> >>],
     [id |-> "de-colors-3", language |-> "de", order |-> 3, xp_reward |-> 15,
      content |-> <<
          <<"r", "o", "t">>,
          <<"B", "l", "u", "e">>,
          <<"g", "r", "U221A", "U00BA", "n">> >>],
     [id |-> "de-phrases-4", language |-> "de", order |-> 4, xp_reward |-> 20,
      content |-> <<
          <<"C", "a", "n", " ", "y", "o", "u", " ", "h", "e", "l", "p", " ", "m", "e", "?">>,
          <<"b", "i", "t", "t", "e">>,
          <<"T", "h", "a", "n", "k", " ", "y", "o", "u">> >>],
     [id |-> "de-family-5", language |-> "de", order |-> 5, xp_reward |-> 20,
      content |-> <<
          <<"m", "u", "t", "t", "e", "r">>,
          <<"v", "a", "t", "e", "r">>,
          <<"B", "r", "o", "t", "h", "e", "r">> >>],
     [id |-> "de-travel-6", language |-> "de", order |-> 6, xp_reward |-> 25,
      content |-> <<
          <<"f", "l", "u", "g", "h", "a", "f", "e", "n">>,
          <<"t", "i", "c", "k", "e", "t">>,
          <<"M", "a", "p">> >>]
  >>

JA_LESSONS ==
  <<
     [id |-> "ja-basics-1", language |-> "ja", order |-> 1, xp_reward |-> 15,
      content |-> <<
          <<"k", "o", "n", "n", "i", "c", "h", "i", "w", "a">>,
          <<"T", "h", "a", "n", "k", " ", "y", "o", "u">>,
          <<"k", "o", "n", "n", "i", "c", "h", "i", "w", "a">>,
          <<"S", "a", "y", "o", "u", "n", "a", "r", "a">> >>],
     [id |-> "ja-numbers-2", language |-> "ja", order |-> 2, xp_reward |-> 15,
      content |-> <<
          <<"i", "c", "h", "i", " ", "n", "i", " ", "s", "a", "n">>,
          <<"T", "h", "r", "e", "e">>,
          <<"g", "o">> >>],
     [id |-> "ja-colors-3", language |-> "ja", order |-> 3, xp_reward |-> 15,
      content |-> <<
          <<"a", "k", "a">>,
          <<"B", "l", "u", "e">>,
          <<"m", "i", "d", "o", "r", "i">> >>],
     [id |-> "ja-phrases-4", language |-> "ja", order |-> 4, xp_reward |-> 20,
      content |-> <<
          <<"C", "a", "n", " ", "y", "o", "u", " ", "h", "e", "l", "p", " ", "m", "e", "?">>,
          <<"o", "n", "e", "g", "a", "i", "s", "h", "i", "m", "a", "s", "u">>,
          <<"T", "h", "a", "n", "k", " ", "y", "o", "u">> >>],
     [id |-> "ja-family-5", language |-> "ja", order |-> 5, xp_reward |-> 20,
      content |-> <<
          <<"o", "k", "a", "a", "s", "a", "n">>,
          <<"o", "t", "o", "u", "s", "a", "n">>,
          <<"B", "r", "o", "t", "h", "e", "r">> >>],
     [id |-> "ja-travel-6", language |-> "ja", order |-> 6, xp_reward |-> 25,
      content |-> <<
          <<"k", "u", "u", "k", "o", "u">>,
          <<"k", "i", "p", "p", "u">>,
          <<"M", "a", "p">> >>]
  >>

ZH_LESSONS ==
  <<
     [id |-> "zh-greetings-1", language |-> "zh", order |-> 1, xp_reward |-> 15,
      content |-> <<
          <<"n", "U00AB", "U00EA", " ", "h", "U00AB", "U00E9", "o">>,
          <<"H", "e", "l", "l", "o">>,
          <<"x", "i", "U221A", "U00AE", "x", "i", "e">>,
          <<"z", "U221A", "U2020", "i", "j", "i", "U221A", "U2020", "n">> >>],
     [id |-> "zh-numbers-2", language |-> "zh", order |-> 2, xp_reward |-> 15,
      content |-> <<
          <<"y", "i", " ", "e", "r", " ", "s", "a", "n">>,
          <<"T", "h", "r", "e", "e">>,
          <<"w", "u">> >>],
     [id |-> "zh-colors-3", language |-> "zh", order |-> 3, xp_reward |-> 15,
      content |-> <<
          <<"h", "U221A", "U2265", "n", "g">>,
          <<"B", "l", "u", "e">>,
          <<"l", "U00AB", "U00FA">> >>],
     [id |-> "zh-phrases-4", language |-> "zh", order |-> 4, xp_reward |-> 20,
      content |-> <<
          <<"C", "a", "n", " ", "y", "o", "u", " ", "h", "e", "l", "p", " ", "m", "e", "?">>,
          <<"q", "U00AB", "U00EA", "n", "g">>,
          <<"T", "h", "a", "n", "k", " ", "y", "o", "u">> >>],
     [id |-> "zh-family-5", language |-> "zh", order |-> 5, xp_reward |-> 20,
      content |-> <<
          <<"m", "U0192", "U00C5", "m", "U0192", "U00C5">>,
          <<"b", "U221A", "U2020", "b", "a">>,
          <<"B", "r", "o", "t", "h", "e", "r">> >>],
     [id |-> "zh-travel-6", language |-> "zh", order |-> 6, xp_reward |-> 25,
      content |-> <<
          <<"j", "U0192", "U00B4", "c", "h", "U00AB", "U00E9", "n", "g">>,
          <<"p", "i", "U221A", "U2020", "o">>,
          <<"M", "a", "p">> >>]
  >>

IT_LESSONS ==
  <<
     [id |-> "it-greetings-1", language |-> "it", order |-> 1, xp_reward |-> 15,
      content |-> <<
          <<"c", "i", "a", "o">>,
          <<"H", "e", "l", "l", "o">>,
          <<"g", "r", "a", "z", "i", "e">>,
          <<"a", "r", "r", "i", "v", "e", "d", "e", "r", "c", "i">> >>],
     [id |-> "it-numbers-2", language |-> "it", order |-> 2, xp_reward |-> 15,
      content |-> <<
          <<"u", "n", "o", " ", "d", "u", "e", " ", "t", "r", "e">>,
          <<"T", "h", "r", "e", "e">>,
          <<"c", "i", "n", "q", "u", "e">> >>],
     [id |-> "it-colors-3", language |-> "it", order |-> 3, xp_reward |-> 15,
      content |-> <<
          <<"r", "o", "s", "s", "o">>,
          <<"B", "l", "u", "e">>,
          <<"v", "e", "r", "d", "e">> >>],
     [id |-> "it-phrases-4", language |-> "it", order |-> 4, xp_reward |-> 20,
      content |-> <<
          <<"C", "a", "n", " ", "y", "o", "u", " ", "h", "e", "l", "p", " ", "m", "e", "?">>,
          <<"p", "e", "r", " ", "f", "a", "v", "o", "r", "e">>,
          <<"T", "h", "a", "n", "k", " ", "y", "o", "u">> >>],
     [id |-> "it-family-5", language |-> "it", order |-> 5, xp_reward |-> 20,
      content |-> <<
          <<"m", "a", "d", "r", "e">>,
          <<"p", "a", "d", "r", "e">>,
          <<"B", "r", "o", "t", "h", "e", "r">> >>],
     [id |-> "it-travel-6", language |-> "it", order |-> 6, xp_reward |-> 25,
      content |-> <<
          <<"a", "e", "r", "o", "p", "o", "r", "t", "o">>,
          <<"b", "i", "g", "l", "i", "e", "t", "t", "o">>,
          <<"M", "a", "p">> >>]
  >>

PT_LESSONS ==
  <<
     [id |-> "pt-greetings-1", language |-> "pt", order |-> 1, xp_reward |-> 15,
      content |-> <<
          <<"o", "l", "U221A", "U00B0">>,
          <<"H", "e", "l", "l", "o">>,
          <<"o", "b", "r", "i", "g", "a", "d", "o">>,
          <<"a", "d", "e", "u", "s">> >>],
     [id |-> "pt-numbers-2", language |-> "pt", order |-> 2, xp_reward |-> 15,
      content |-> <<
          <<"u", "m", " ", "d", "o", "i", "s", " ", "t", "r", "U221A", "U2122", "s">>,
          <<"T", "h", "r", "e", "e">>,
          <<"c", "i", "n", "c", "o">> >>],
     [id |-> "pt-colors-3", language |-> "pt", order |-> 3, xp_reward |-> 15,
      content |-> <<
          <<"v", "e", "r", "m", "e", "l", "h", "o">>,
          <<"B", "l", "u", "e">>,
          <<"v", "e", "r", "d", "e">> >>],
     [id |-> "pt-phrases-4", language |-> "pt", order |-> 4, xp_reward |-> 20,
      content |-> <<
          <<"C", "a", "n", " ", "y", "o", "u", " ", "h", "e", "l", "p", " ", "m", "e", "?">>,
          <<"p", "o", "r", " ", "f", "a", "v", "o", "r">>,
          <<"T", "h", "a", "n", "k", " ", "y", "o", "u">> >>],
     [id |-> "pt-family-5", language |-> "pt", order |-> 5, xp_reward |-> 20,
      content |-> <<
          <<"m", "U221A", "U00A3", "e">>,
          <<"p", "a", "i">>,
          <<"B", "r", "o", "t", "h", "e", "r">> >>],
     [id |-> "pt-travel-6", language |-> "pt", order |-> 6, xp_reward |-> 25,
      content |-> <<
          <<"a", "e", "r", "o", "p", "o", "r", "t", "o">>,
          <<"b", "i", "l", "h", "e", "t", "e">>,
          <<"M", "a", "p">> >>]
  >>

KO_LESSONS ==
  <<
     [id |-> "ko-greetings-1", language |-> "ko", order |-> 1, xp_reward |-> 15,
      content |-> <<
          <<"a", "n", "n", "y", "e", "o", "n", "g">>,
          <<"H", "e", "l", "l", "o">>,
          <<"g", "a", "m", "s", "a", "h", "a", "m", "n", "i", "d", "a">>,
          <<"a", "n", "n", "y", "e", "o", "n", "g", "h", "i", " ", "g", "a", "s", "e", "y", "o">> >>],
     [id |-> "ko-numbers-2", language |-> "ko", order |-> 2, xp_reward |-> 15,
      content |-> <<
          <<"h", "a", "n", "a", " ", "d", "u", "l", " ", "s", "e", "t">>,
          <<"T", "h", "r", "e", "e">>,
          <<"d", "a", "s", "e", "o", "t">> >>],
     [id |-> "ko-colors-3", language |-> "ko", order |-> 3, xp_reward |-> 15,
      content |-> <<
          <<"p", "p", "a", "l", "g", "a", "n">>,
          <<"B", "l", "u", "e">>,
          <<"n", "o", "k">> >>],
     [id |-> "ko-phrases-4", language |-> "ko", order |-> 4, xp_reward |-> 20,
      content |-> <<
          <<"C", "a", "n", " ", "y", "o", "u", " ", "h", "e", "l", "p", " ", "m", "e", "?">>,
          <<"b", "u", "t", "a", "k", "a", "m", "n", "i", "d", "a">>,
          <<"T", "h", "a", "n", "k", " ", "y", "o", "u">> >>],
     [id |-> "ko-family-5", language |-> "ko", order |-> 5, xp_reward |-> 20,
      content |-> <<
          <<"e", "o", "m", "e", "o", "n", "i">>,
          <<"a", "b", "e", "o", "j", "i">>,
          <<"B", "r", "o", "t", "h", "e", "r">> >>],
     [id |-> "ko-travel-6", language |-> "ko", order |-> 6, xp_reward |-> 25,
      content |-> <<
          <<"g", "o", "n", "g", "h", "a", "n", "g">>,
          <<"p", "y", "o">>,
          <<"M", "a", "p">> >>]
  >>

RU_LESSONS ==
  <<
     [id |-> "ru-greetings-1", language |-> "ru", order |-> 1, xp_reward |-> 15,
      content |-> <<
          <<"p", "r", "i", "v", "e", "t">>,
          <<"H", "e", "l", "l", "o">>,
          <<"s", "p", "a", "s", "i", "b", "o">>,
          <<"d", "o", " ", "s", "v", "i", "d", "a", "n", "i", "y", "a">> >>],
     [id |-> "ru-numbers-2", language |-> "ru", order |-> 2, xp_reward |-> 15,
      content |-> <<
          <<"o", "d", "i", "n", " ", "d", "v", "a", " ", "t", "r", "i">>,
          <<"T", "h", "r", "e", "e">>,
          <<"p", "y", "a", "t">> >>],
     [id |-> "ru-colors-3", language |-> "ru", order |-> 3, xp_reward |-> 15,
      content |-> <<
          <<"k", "r", "a", "s", "n", "y", "y">>,
          <<"B", "l", "u", "e">>,
          <<"z", "e", "l", "y", "o", "n", "y", "y">> >>],
     [id |-> "ru-phrases-4", language |-> "ru", order |-> 4, xp_reward |-> 20,
      content |-> <<
          <<"C", "a", "n", " ", "y", "o", "u", " ", "h", "e", "l", "p", " ", "m", "e", "?">>,
          <<"p", "o", "z", "h", "a", "l", "u", "y", "s", "t", "a">>,
          <<"T", "h", "a", "n", "k", " ", "y", "o", "u">> >>],
     [id |-> "ru-family-5", language |-> "ru", order |-> 5, xp_reward |-> 20,
      content |-> <<
          <<"m", "a", "t">>,
          <<"o", "t", "e", "z">>,
          <<"B", "r", "o", "t", "h", "e", "r">> >>],
     [id |-> "ru-travel-6", language |-> "ru", order |-> 6, xp_reward |-> 25,
      content |-> <<
          <<"a", "e", "r", "o", "p", "o", "r", "t">>,
          <<"b", "i", "l", "e", "t">>,
          <<"M", "a", "p">> >>]
  >>

AR_LESSONS ==
  <<
     [id |-> "ar-greetings-1", language |-> "ar", order |-> 1, xp_reward |-> 15,
      content |-> <<
          <<"m", "a", "r", "h", "a", "b", "a">>,
          <<"H", "e", "l", "l", "o">>,
          <<"s", "h", "u", "k", "r", "a", "n">>,
          <<"m", "a", "U00A0", "U00F8", "a", " ", "s", "-", "s", "a", "l", "U0192", "U00C5", "m", "a">> >>],
     [id |-> "ar-numbers-2", language |-> "ar", order |-> 2, xp_reward |-> 15,
      content |-> <<
          <<"w", "a", "h", "i", "d", " ", "i", "t", "h", "n", "a", "n", " ", "t", "h", "a", "l", "a", "t", "h", "a">>,
          <<"T", "h", "r", "e", "e">>,
          <<"k", "h", "a", "m", "s", "a">> >>],
     [id |-> "ar-colors-3", language |-> "ar", order |-> 3, xp_reward |-> 15,
      content |-> <<
          <<"a", "h", "m", "a", "r">>,
          <<"B", "l", "u", "e">>,
          <<"a", "k", "h", "U00B7", "U220F", "U00E7", "a", "r">> >>],
     [id |-> "ar-phrases-4", language |-> "ar", order |-> 4, xp_reward |-> 20,
      content |-> <<
          <<"C", "a", "n", " ", "y", "o", "u", " ", "h", "e", "l", "p", " ", "m", "e", "?">>,
          <<"m", "i", "n", " ", "f", "a", "d", "l", "a", "k">>,
          <<"T", "h", "a", "n", "k", " ", "y", "o", "u">> >>],
     [id |-> "ar-family-5", language |-> "ar", order |-> 5, xp_reward |-> 20,
      content |-> <<
          <<"u", "m", "m">>,
          <<"a", "b">>,
          <<"B", "r", "o", "t", "h", "e", "r">> >>],
     [id |-> "ar-travel-6", language |-> "ar", order |-> 6, xp_reward |-> 25,
      content |-> <<
          <<"m", "a", "t", "a", "a", "r">>,
          <<"t", "a", "d", "h", "k", "i", "r", "a">>,
          <<"M", "a", "p">> >>]
  >>

SAMPLE_LESSONS ==
  [code \in {"es", "fr", "de", "ja", "zh", "it", "pt", "ko", "ru", "ar"} |->
     CASE code = "es" -> ES_LESSONS
       [] code = "fr" -> FR_LESSONS
       [] code = "de" -> DE_LESSONS
       [] code = "ja" -> JA_LESSONS
       [] code = "zh" -> ZH_LESSONS
       [] code = "it" -> IT_LESSONS
       [] code = "pt" -> PT_LESSONS
       [] code = "ko" -> KO_LESSONS
       [] code = "ru" -> RU_LESSONS
       [] code = "ar" -> AR_LESSONS]

\* The lessons of "es" for a language that has none
LessonsOfOrSpanish(language) ==
  IF language \in DOMAIN SAMPLE_LESSONS THEN SAMPLE_LESSONS[language] ELSE ES_LESSONS

\* SAMPLE_LESSONS.get(language, [])
LessonsOf(language) ==
  IF language \in DOMAIN SAMPLE_LESSONS THEN SAMPLE_LESSONS[language] ELSE <<>>

\* next((l for l in lessons if l['id'] == lesson_id), None): the index of the
\* first lesson with that id, 0 when there is none
FindLesson(lessons, lesson_id) ==
  LET hits == {i \in 1..Len(lessons) : lessons[i].id = lesson_id}
  IN  IF hits = {} THEN 0 ELSE CHOOSE i \in hits : \A j \in hits : i <= j

ACHIEVEMENTS ==
  <<"first-lesson", "streak-3", "streak-7", "streak-30", "xp-100", "xp-500",
    "xp-1000", "perfect-lesson", "multi-language", "level-5", "level-10">>

(***************************************************************************)
(* Scoring (complete_lesson, "Calculate score").                           *)
(***************************************************************************)
\* One pass of the loop over enumerate(submission.answers)
AnswerIsCorrect(content, answers, i) ==
  /\ i <= Len(content)
  /\ strip(lower(answers[i])) = strip(lower(content[i]))

CountCorrect(content, answers) ==
  Cardinality({i \in 1..Len(answers) : AnswerIsCorrect(content, answers, i)})

(***************************************************************************)
(* int((correct / total) * 100) in IEEE 754 binary64, round to nearest     *)
(* even, computed with remainders so that no number exceeds 4 * total^2    *)
(* (total < 2^14).                                                         *)
(* For 0 < correct < total the double correct / total is m * 2^-(52 + i),  *)
(* with i the binade of the quotient and m the integer nearest to          *)
(* correct * 2^(52 + i) / total; its error is eps / (total * 2^(52 + i)).  *)
(***************************************************************************)
\* 2^n for n in 0..15
Pow2(n) == <<1, 2, 4, 8, 16, 32, 64, 128, 256, 512, 1024, 2048, 4096, 8192, 16384, 32768>>[n + 1]

\* 2^(52 + i) modulo n
Pow2Mod(i, n) ==
  LET p13 == 8192 % n
      p26 == (p13 * p13) % n
      p52 == (p26 * p26) % n
  IN  (p52 * (Pow2(i) % n)) % n

\* The i in 1..15 with 2^-i <= correct / total < 2^-(i - 1), for
\* 0 < correct < total < 2^14
Binade(correct, total) ==
  CHOOSE i \in 1..15 : correct * Pow2(i) >= total /\ correct * Pow2(i - 1) < total

\* eps of correct / total: minus the remainder when the mantissa is rounded
\* down, total minus the remainder when it is rounded up (a tie goes to the
\* even mantissa)
TrueDivError(correct, total) ==
  LET i == Binade(correct, total)
      r == (correct * Pow2Mod(i, total)) % total
      odd == ((correct * Pow2Mod(i, 2 * total)) % (2 * total)) >= total
  IN  IF 2 * r > total \/ (2 * r = total /\ odd) THEN total - r ELSE 0 - r

\* int((correct / total) * 100).  When correct * 100 / total is no integer,
\* the product is within 2^-40 of it and its truncation is the integer
\* quotient.  When it is an integer k, the product of the double and 100 is
\* k + 100 * eps / (total * 2^(52 + i)), and it is rounded to a double below
\* k, hence truncated to k - 1, exactly when eps < 0 and the distance to k
\* exceeds half the gap between k and the double before it, 2^(h - 54) with
\* 2^(h - 1) < k <= 2^h.
ScorePct(correct, total) ==
  LET k == (correct * 100) \div total
  IN  IF correct = 0 \/ correct = total \/ (correct * 100) % total # 0
      THEN k
      ELSE LET i == Binade(correct, total)
               h == CHOOSE e \in 0..7 : Pow2(e) >= k /\ (e = 0 \/ Pow2(e - 1) < k)
               eps == TrueDivError(correct, total)
           IN  IF eps < 0 /\ 200 * (0 - eps) > total * Pow2(i + h - 1)
               THEN k - 1 ELSE k

Passed(score_pct) == score_pct >= PASS_PERCENT

\* "Calculate score" for any list of graded items.  correct / total raises
\* ZeroDivisionError when the lesson has no item.
CalculateScore(content, answers) ==
  LET correct == CountCorrect(content, answers)
      total   == Len(content)
  IN  IF total = 0
      THEN [error |-> "ZeroDivisionError", correct |-> correct, total |-> total]
      ELSE [error |-> "", correct |-> correct, total |-> total,
            score_pct |-> ScorePct(correct, total),
            passed |-> Passed(ScorePct(correct, total))]

(***************************************************************************)
(* XP, streak, level and hearts (complete_lesson, "Calculate XP" to        *)
(* "Deduct heart if failed").                                              *)
(***************************************************************************)
\* Half the reward rounded up instead of down
BaseXpRoundedUp(xp_reward, passed) == IF passed THEN xp_reward ELSE (xp_reward + 1) \div 2

BaseXp(xp_reward, passed) == IF passed THEN xp_reward ELSE xp_reward \div 2

Min(a, b) == IF a < b THEN a ELSE b

\* A bonus with no cap
StreakBonusUncapped(new_streak) == new_streak * 2

StreakBonus(new_streak) == Min(new_streak * 2, MAX_STREAK_BONUS)

\* (now.date() - last_date).days
DaysDiff(today, last_practice) == toordinal(today) - toordinal(fromisoformat(last_practice))
\* A streak that goes on growing after a gap of more than one day
UpdateStreakNoReset(user, today) ==
  IF user.last_practice_date # None
  THEN LET days_diff == DaysDiff(today, user.last_practice_date)
       IN  IF days_diff >= 1
           THEN [new_streak |-> user.streak + 1, streak_bonus |-> StreakBonus(user.streak + 1)]
           ELSE [new_streak |-> user.streak, streak_bonus |-> 0]
  ELSE [new_streak |-> 1, streak_bonus |-> 0]

\* A streak that a first completion leaves as it is
UpdateStreakKeepsZero(user, today) ==
  IF user.last_practice_date # None
  THEN LET days_diff == DaysDiff(today, user.last_practice_date)
       IN  IF days_diff = 1
           THEN [new_streak |-> user.streak + 1, streak_bonus |-> StreakBonus(user.streak + 1)]
           ELSE IF days_diff > 1
           THEN [new_streak |-> 1, streak_bonus |-> 0]
           ELSE [new_streak |-> user.streak, streak_bonus |-> 0]
  ELSE [new_streak |-> user.streak, streak_bonus |-> 0]

\* A streak that grows with every completion of the day
UpdateStreakSameDay(user, today) ==
  IF user.last_practice_date # None
  THEN LET days_diff == DaysDiff(today, user.last_practice_date)
       IN  IF days_diff <= 1
           THEN [new_streak |-> user.streak + 1, streak_bonus |-> StreakBonus(user.streak + 1)]
           ELSE [new_streak |-> 1, streak_bonus |-> 0]
  ELSE [new_streak |-> 1, streak_bonus |-> 0]

\* The new streak and the streak bonus from the profile read at
\* authentication and the date sampled by the handler
UpdateStreak(user, today) ==
  IF user.last_practice_date # None
  THEN LET days_diff == DaysDiff(today, user.last_practice_date)
       IN  IF days_diff = 1
           THEN [new_streak |-> user.streak + 1, streak_bonus |-> StreakBonus(user.streak + 1)]
           ELSE IF days_diff > 1
           THEN [new_streak |-> 1, streak_bonus |-> 0]
           ELSE [new_streak |-> user.streak, streak_bonus |-> 0]
  ELSE [new_streak |-> 1, streak_bonus |-> 0]
\* Levels counted from 0
LevelOfFromZero(xp) == xp \div XP_PER_LEVEL

\* (new_total_xp // 100) + 1
LevelOf(xp) == (xp \div XP_PER_LEVEL) + 1
\* A heart deducted for a failed quiz even when none is left
UpdateDataBelowZero(user, new_total_xp, new_streak, today, passed) ==
  IF ~passed
  THEN [xp |-> new_total_xp, level |-> (new_total_xp \div XP_PER_LEVEL) + 1,
        streak |-> new_streak, last_practice_date |-> isoformat(today),
        hearts |-> user.hearts - 1]
  ELSE [xp |-> new_total_xp, level |-> (new_total_xp \div XP_PER_LEVEL) + 1,
        streak |-> new_streak, last_practice_date |-> isoformat(today)]

\* A heart deducted for every quiz, passed or failed
UpdateDataEveryQuiz(user, new_total_xp, new_streak, today, passed) ==
  IF user.hearts > 0
  THEN [xp |-> new_total_xp, level |-> (new_total_xp \div XP_PER_LEVEL) + 1,
        streak |-> new_streak, last_practice_date |-> isoformat(today),
        hearts |-> user.hearts - 1]
  ELSE [xp |-> new_total_xp, level |-> (new_total_xp \div XP_PER_LEVEL) + 1,
        streak |-> new_streak, last_practice_date |-> isoformat(today)]

\* update_data: hearts is in it only for a failed quiz with hearts left
UpdateData(user, new_total_xp, new_streak, today, passed) ==
  IF ~passed /\ user.hearts > 0
  THEN [xp |-> new_total_xp, level |-> LevelOf(new_total_xp), streak |-> new_streak,
        last_practice_date |-> isoformat(today), hearts |-> user.hearts - 1]
  ELSE [xp |-> new_total_xp, level |-> LevelOf(new_total_xp), streak |-> new_streak,
        last_practice_date |-> isoformat(today)]

\* {'$set': update}: the named fields are replaced, the others are kept
ApplySet(doc, update) ==
  [k \in DOMAIN doc |-> IF k \in DOMAIN update THEN update[k] ELSE doc[k]]

(***************************************************************************)
(* The catalog as the module builds it when it is loaded: the literal of   *)
(* SAMPLE_LESSONS, the words of common_phrases, and the make_*_lesson      *)
(* functions that the loop over LANGUAGES calls.  A lesson keeps the       *)
(* fields the engine reads, and an item its correct_answer.                *)
(***************************************************************************)
ES_LITERAL ==
  <<
     [id |-> "es-basics-1", language |-> "es", order |-> 1, xp_reward |-> 15,
      content |-> <<
          <<"h", "o", "l", "a">>,
          <<"G", "o", "o", "d", " ", "m", "o", "r", "n", "i", "n", "g">>,
          <<"g", "r", "a", "c", "i", "a", "s">>,
          <<"A", "d", "i", "U221A", "U2265", "s">> >>],
     [id |-> "es-basics-2", language |-> "es", order |-> 2, xp_reward |-> 15,
      content |-> <<
          <<"u", "n", "o", " ", "d", "o", "s", " ", "t", "r", "e", "s">>,
          <<"F", "i", "v", "e">>,
          <<"s", "i", "e", "t", "e">>,
          <<"N", "u", "e", "v", "e">> >>],
     [id |-> "es-basics-3", language |-> "es", order |-> 3, xp_reward |-> 20,
      content |-> <<
          <<"r", "o", "j", "o">>,
          <<"B", "l", "u", "e">>,
          <<"v", "e", "r", "d", "e">>,
          <<"Y", "e", "l", "l", "o", "w">> >>]
  >>

FR_LITERAL ==
  <<
     [id |-> "fr-basics-1", language |-> "fr", order |-> 1, xp_reward |-> 15,
      content |-> <<
          <<"b", "o", "n", "j", "o", "u", "r">>,
          <<"T", "h", "a", "n", "k", " ", "y", "o", "u">>,
          <<"a", "u", " ", "r", "e", "v", "o", "i", "r">>,
          <<"S", "'", "i", "l", " ", "v", "o", "u", "s", " ", "p", "l", "a", "U221A", "U00C6", "t">> >>]
  >>

DE_LITERAL ==
  <<
     [id |-> "de-basics-1", language |-> "de", order |-> 1, xp_reward |-> 15,
      content |-> <<
          <<"g", "u", "t", "e", "n", " ", "t", "a", "g">>,
          <<"T", "h", "a", "n", "k", " ", "y", "o", "u">>,
          <<"a", "u", "f", " ", "w", "i", "e", "d", "e", "r", "s", "e", "h", "e", "n">>,
          <<"G", "u", "t", "e", "n", " ", "M", "o", "r", "g", "e", "n">> >>]
  >>

JA_LITERAL ==
  <<
     [id |-> "ja-basics-1", language |-> "ja", order |-> 1, xp_reward |-> 15,
      content |-> <<
          <<"k", "o", "n", "n", "i", "c", "h", "i", "w", "a">>,
          <<"T", "h", "a", "n", "k", " ", "y", "o", "u">>,
          <<"k", "o", "n", "n", "i", "c", "h", "i", "w", "a">>,
          <<"S", "a", "y", "o", "u", "n", "a", "r", "a">> >>]
  >>

\* SAMPLE_LESSONS = {...}: the dict as the literal writes it, before the loop
LITERAL_LESSONS ==
  ("es" :> ES_LITERAL) @@ ("fr" :> FR_LITERAL) @@ ("de" :> DE_LITERAL) @@ ("ja" :> JA_LITERAL)

ES_PHRASES ==
     [hello |-> <<"h", "o", "l", "a">>,
      thank |-> <<"g", "r", "a", "c", "i", "a", "s">>,
      goodbye |-> <<"a", "d", "i", "U221A", "U2265", "s">>,
      please |-> <<"p", "o", "r", " ", "f", "a", "v", "o", "r">>,
      numbers |->
        <<<<"u", "n", "o">>,
          <<"d", "o", "s">>,
          <<"t", "r", "e", "s">>,
          <<"c", "u", "a", "t", "r", "o">>,
          <<"c", "i", "n", "c", "o">>,
          <<"s", "e", "i", "s">>,
          <<"s", "i", "e", "t", "e">>,
          <<"o", "c", "h", "o">>,
          <<"n", "u", "e", "v", "e">>,
          <<"d", "i", "e", "z">>>>,
      colors |->
        <<<<"r", "o", "j", "o">>,
          <<"a", "z", "u", "l">>,
          <<"v", "e", "r", "d", "e">>,
          <<"a", "m", "a", "r", "i", "l", "l", "o">>,
          <<"n", "e", "g", "r", "o">>,
          <<"b", "l", "a", "n", "c", "o">>,
          <<"n", "a", "r", "a", "n", "j", "a">>,
          <<"m", "o", "r", "a", "d", "o">>>>,
      family |->
        [father |-> <<"p", "a", "d", "r", "e">>,
         mother |-> <<"m", "a", "d", "r", "e">>,
         brother |-> <<"h", "e", "r", "m", "a", "n", "o">>,
         sister |-> <<"h", "e", "r", "m", "a", "n", "a">>],
      travel |->
        [airport |-> <<"a", "e", "r", "o", "p", "u", "e", "r", "t", "o">>,
         hotel |-> <<"h", "o", "t", "e", "l">>,
         ticket |-> <<"b", "o", "l", "e", "t", "o">>,
         map |-> <<"m", "a", "p", "a">>]]

FR_PHRASES ==
     [hello |-> <<"b", "o", "n", "j", "o", "u", "r">>,
      thank |-> <<"m", "e", "r", "c", "i">>,
      goodbye |-> <<"a", "u", " ", "r", "e", "v", "o", "i", "r">>,
      please |-> <<"s", "'", "i", "l", " ", "v", "o", "u", "s", " ", "p", "l", "a", "U221A", "U00C6", "t">>,
      numbers |->
        <<<<"u", "n">>,
          <<"d", "e", "u", "x">>,
          <<"t", "r", "o", "i", "s">>,
          <<"q", "u", "a", "t", "r", "e">>,
          <<"c", "i", "n", "q">>,
          <<"s", "i", "x">>,
          <<"s", "e", "p", "t">>,
          <<"h", "u", "i", "t">>,
          <<"n", "e", "u", "f">>,
          <<"d", "i", "x">>>>,
      colors |->
        <<<<"r", "o", "u", "g", "e">>,
          <<"b", "l", "e", "u">>,
          <<"v", "e", "r", "t">>,
          <<"j", "a", "u", "n", "e">>,
          <<"n", "o", "i", "r">>,
          <<"b", "l", "a", "n", "c">>,
          <<"o", "r", "a", "n", "g", "e">>,
          <<"v", "i", "o", "l", "e", "t">>>>,
      family |->
        [father |-> <<"p", "U221A", "U00AE", "r", "e">>,
         mother |-> <<"m", "U221A", "U00AE", "r", "e">>,
         brother |-> <<"f", "r", "U221A", "U00AE", "r", "e">>,
         sister |-> <<"s", "U2248", "U00EC", "u", "r">>],
      travel |->
        [airport |-> <<"a", "U221A", "U00A9", "r", "o", "p", "o", "r", "t">>,
         hotel |-> <<"h", "U221A", "U00A5", "t", "e", "l">>,
         ticket |-> <<"b", "i", "l", "l", "e", "t">>,
         map |-> <<"c", "a", "r", "t", "e">>]]

DE_PHRASES ==
     [hello |-> <<"h", "a", "l", "l", "o">>,
      thank |-> <<"d", "a", "n", "k", "e">>,
      goodbye |-> <<"a", "u", "f", " ", "w", "i", "e", "d", "e", "r", "s", "e", "h", "e", "n">>,
      please |-> <<"b", "i", "t", "t", "e">>,
      numbers |->
        <<<<"e", "i", "n", "s">>,
          <<"z", "w", "e", "i">>,
          <<"d", "r", "e", "i">>,
          <<"v", "i", "e", "r">>,
          <<"f", "U221A", "U00BA", "n", "f">>,
          <<"s", "e", "c", "h", "s">>,
          <<"s", "i", "e", "b", "e", "n">>,
          <<"a", "c", "h", "t">>,
          <<"n", "e", "u", "n">>,
          <<"z", "e", "h", "n">>>>,
      colors |->
        <<<<"r", "o", "t">>,
          <<"b", "l", "a", "u">>,
          <<"g", "r", "U221A", "U00BA", "n">>,
          <<"g", "e", "l", "b">>,
          <<"s", "c", "h", "w", "a", "r", "z">>,
          <<"w", "e", "i", "U221A", "U00FC">>,
          <<"o", "r", "a", "n", "g", "e">>,
          <<"l", "i", "l", "a">>>>,
      family |->
        [father |-> <<"v", "a", "t", "e", "r">>,
         mother |-> <<"m", "u", "t", "t", "e", "r">>,
         brother |-> <<"b", "r", "u", "d", "e", "r">>,
         sister |-> <<"s", "c", "h", "w", "e", "s", "t", "e", "r">>],
      travel |->
        [airport |-> <<"f", "l", "u", "g", "h", "a", "f", "e", "n">>,
         hotel |-> <<"h", "o", "t", "e", "l">>,
         ticket |-> <<"t", "i", "c", "k", "e", "t">>,
         map |-> <<"k", "a", "r", "t", "e">>]]

JA_PHRASES ==
     [hello |-> <<"k", "o", "n", "n", "i", "c", "h", "i", "w", "a">>,
      thank |-> <<"a", "r", "i", "g", "a", "t", "o", "u">>,
      goodbye |-> <<"s", "a", "y", "o", "u", "n", "a", "r", "a">>,
      please |-> <<"o", "n", "e", "g", "a", "i", "s", "h", "i", "m", "a", "s", "u">>,
      numbers |->
        <<<<"i", "c", "h", "i">>,
          <<"n", "i">>,
          <<"s", "a", "n">>,
          <<"s", "h", "i">>,
          <<"g", "o">>,
          <<"r", "o", "k", "u">>,
          <<"s", "h", "i", "c", "h", "i">>,
          <<"h", "a", "c", "h", "i">>,
          <<"k", "y", "u", "u">>,
          <<"j", "u", "u">>>>,
      colors |->
        <<<<"a", "k", "a">>,
          <<"a", "o">>,
          <<"m", "i", "d", "o", "r", "i">>,
          <<"k", "i">>,
          <<"k", "u", "r", "o">>,
          <<"s", "h", "i", "r", "o">>,
          <<"d", "a", "i", "d", "a", "i">>,
          <<"m", "u", "r", "a", "s", "a", "k", "i">>>>,
      family |->
        [father |-> <<"o", "t", "o", "u", "s", "a", "n">>,
         mother |-> <<"o", "k", "a", "a", "s", "a", "n">>,
         brother |-> <<"o", "n", "i", "i", "s", "a", "n">>,
         sister |-> <<"o", "n", "e", "e", "s", "a", "n">>],
      travel |->
        [airport |-> <<"k", "u", "u", "k", "o", "u">>,
         hotel |-> <<"h", "o", "t", "e", "r", "u">>,
         ticket |-> <<"k", "i", "p", "p", "u">>,
         map |-> <<"c", "h", "i", "z", "u">>]]

ZH_PHRASES ==
     [hello |-> <<"n", "U00AB", "U00EA", " ", "h", "U00AB", "U00E9", "o">>,
      thank |-> <<"x", "i", "U221A", "U00AE", "x", "i", "e">>,
      goodbye |-> <<"z", "U221A", "U2020", "i", "j", "i", "U221A", "U2020", "n">>,
      please |-> <<"q", "U00AB", "U00EA", "n", "g">>,
      numbers |->
        <<<<"y", "i">>,
          <<"e", "r">>,
          <<"s", "a", "n">>,
          <<"s", "i">>,
          <<"w", "u">>,
          <<"l", "i", "u">>,
          <<"q", "i">>,
          <<"b", "a">>,
          <<"j", "i", "u">>,
          <<"s", "h", "i">>>>,
      colors |->
        <<<<"h", "U221A", "U2265", "n", "g">>,
          <<"l", "U221A", "U00B0", "n">>,
          <<"l", "U00AB", "U00FA">>,
          <<"h", "u", "U221A", "U00B0", "n", "g">>,
          <<"h", "U0192", "U00EC", "i">>,
          <<"b", "U221A", "U00B0", "i">>,
          <<"c", "h", "U221A", "U00A9", "n", "g">>,
          <<"z", "U00AB", "U00EA">>>>,
      family |->
        [father |-> <<"b", "U221A", "U2020", "b", "a">>,
         mother |-> <<"m", "U0192", "U00C5", "m", "U0192", "U00C5">>,
         brother |-> <<"g", "U0192", "U00EC", "g", "U0192", "U00EC">>,
         sister |-> <<"j", "i", "U0192", "U00F5", "j", "i", "U0192", "U00F5">>],
      travel |->
        [airport |-> <<"j", "U0192", "U00B4", "c", "h", "U00AB", "U00E9", "n", "g">>,
         hotel |-> <<"j", "i", "U00AB", "U00EE", "d", "i", "U221A", "U2020", "n">>,
         ticket |-> <<"p", "i", "U221A", "U2020", "o">>,
         map |-> <<"d", "U221A", "U00A8", "t", "U221A", "U222B">>]]

IT_PHRASES ==
     [hello |-> <<"c", "i", "a", "o">>,
      thank |-> <<"g", "r", "a", "z", "i", "e">>,
      goodbye |-> <<"a", "r", "r", "i", "v", "e", "d", "e", "r", "c", "i">>,
      please |-> <<"p", "e", "r", " ", "f", "a", "v", "o", "r", "e">>,
      numbers |->
        <<<<"u", "n", "o">>,
          <<"d", "u", "e">>,
          <<"t", "r", "e">>,
          <<"q", "u", "a", "t", "t", "r", "o">>,
          <<"c", "i", "n", "q", "u", "e">>,
          <<"s", "e", "i">>,
          <<"s", "e", "t", "t", "e">>,
          <<"o", "t", "t", "o">>,
          <<"n", "o", "v", "e">>,
          <<"d", "i", "e", "c", "i">>>>,
      colors |->
        <<<<"r", "o", "s", "s", "o">>,
          <<"b", "l", "u">>,
          <<"v", "e", "r", "d", "e">>,
          <<"g", "i", "a", "l", "l", "o">>,
          <<"n", "e", "r", "o">>,
          <<"b", "i", "a", "n", "c", "o">>,
          <<"a", "r", "a", "n", "c", "i", "o", "n", "e">>,
          <<"v", "i", "o", "l", "a">>>>,
      family |->
        [father |-> <<"p", "a", "d", "r", "e">>,
         mother |-> <<"m", "a", "d", "r", "e">>,
         brother |-> <<"f", "r", "a", "t", "e", "l", "l", "o">>,
         sister |-> <<"s", "o", "r", "e", "l", "l", "a">>],
      travel |->
        [airport |-> <<"a", "e", "r", "o", "p", "o", "r", "t", "o">>,
         hotel |-> <<"h", "o", "t", "e", "l">>,
         ticket |-> <<"b", "i", "g", "l", "i", "e", "t", "t", "o">>,
         map |-> <<"m", "a", "p", "p", "a">>]]

PT_PHRASES ==
     [hello |-> <<"o", "l", "U221A", "U00B0">>,
      thank |-> <<"o", "b", "r", "i", "g", "a", "d", "o">>,
      goodbye |-> <<"a", "d", "e", "u", "s">>,
      please |-> <<"p", "o", "r", " ", "f", "a", "v", "o", "r">>,
      numbers |->
        <<<<"u", "m">>,
          <<"d", "o", "i", "s">>,
          <<"t", "r", "U221A", "U2122", "s">>,
          <<"q", "u", "a", "t", "r", "o">>,
          <<"c", "i", "n", "c", "o">>,
          <<"s", "e", "i", "s">>,
          <<"s", "e", "t", "e">>,
          <<"o", "i", "t", "o">>,
          <<"n", "o", "v", "e">>,
          <<"d", "e", "z">>>>,
      colors |->
        <<<<"v", "e", "r", "m", "e", "l", "h", "o">>,
          <<"a", "z", "u", "l">>,
          <<"v", "e", "r", "d", "e">>,
          <<"a", "m", "a", "r", "e", "l", "o">>,
          <<"p", "r", "e", "t", "o">>,
          <<"b", "r", "a", "n", "c", "o">>,
          <<"l", "a", "r", "a", "n", "j", "a">>,
          <<"r", "o", "x", "o">>>>,
      family |->
        [father |-> <<"p", "a", "i">>,
         mother |-> <<"m", "U221A", "U00A3", "e">>,
         brother |-> <<"i", "r", "m", "U221A", "U00A3", "o">>,
         sister |-> <<"i", "r", "m", "U221A", "U00A3">>],
      travel |->
        [airport |-> <<"a", "e", "r", "o", "p", "o", "r", "t", "o">>,
         hotel |-> <<"h", "o", "t", "e", "l">>,
         ticket |-> <<"b", "i", "l", "h", "e", "t", "e">>,
         map |-> <<"m", "a", "p", "a">>]]

KO_PHRASES ==
     [hello |-> <<"a", "n", "n", "y", "e", "o", "n", "g">>,
      thank |-> <<"g", "a", "m", "s", "a", "h", "a", "m", "n", "i", "d", "a">>,
      goodbye |-> <<"a", "n", "n", "y", "e", "o", "n", "g", "h", "i", " ", "g", "a", "s", "e", "y", "o">>,
      please |-> <<"b", "u", "t", "a", "k", "a", "m", "n", "i", "d", "a">>,
      numbers |->
        <<<<"h", "a", "n", "a">>,
          <<"d", "u", "l">>,
          <<"s", "e", "t">>,
          <<"n", "e", "t">>,
          <<"d", "a", "s", "e", "o", "t">>,
          <<"y", "e", "o", "s", "e", "o", "t">>,
          <<"i", "l", "g", "o", "p">>,
          <<"y", "e", "o", "d", "a", "l">>,
          <<"a", "h", "o", "p">>,
          <<"y", "e", "o", "l">>>>,
      colors |->
        <<<<"p", "p", "a", "l", "g", "a", "n">>,
          <<"p", "a", "r", "a", "n">>,
          <<"n", "o", "k">>,
          <<"h", "w", "a", "n", "g">>,
          <<"g", "e", "o", "m", "j", "e", "o", "n", "g">>,
          <<"h", "a", "y", "a", "n">>,
          <<"j", "u", "h", "w", "a", "n", "g">>,
          <<"b", "o", "r", "a">>>>,
      family |->
        [father |-> <<"a", "b", "e", "o", "j", "i">>,
         mother |-> <<"e", "o", "m", "e", "o", "n", "i">>,
         brother |-> <<"h", "y", "e", "o", "n", "g">>,
         sister |-> <<"n", "u", "n", "a">>],
      travel |->
        [airport |-> <<"g", "o", "n", "g", "h", "a", "n", "g">>,
         hotel |-> <<"h", "o", "t", "e", "l">>,
         ticket |-> <<"p", "y", "o">>,
         map |-> <<"j", "i", "d", "o">>]]

RU_PHRASES ==
     [hello |-> <<"p", "r", "i", "v", "e", "t">>,
      thank |-> <<"s", "p", "a", "s", "i", "b", "o">>,
      goodbye |-> <<"d", "o", " ", "s", "v", "i", "d", "a", "n", "i", "y", "a">>,
      please |-> <<"p", "o", "z", "h", "a", "l", "u", "y", "s", "t", "a">>,
      numbers |->
        <<<<"o", "d", "i", "n">>,
          <<"d", "v", "a">>,
          <<"t", "r", "i">>,
          <<"c", "h", "e", "t", "y", "r", "e">>,
          <<"p", "y", "a", "t">>,
          <<"s", "h", "e", "s", "t">>,
          <<"s", "e", "m">>,
          <<"v", "o", "s", "e", "m">>,
          <<"d", "e", "v", "y", "a", "t">>,
          <<"d", "e", "s", "y", "a", "t">>>>,
      colors |->
        <<<<"k", "r", "a", "s", "n", "y", "y">>,
          <<"s", "i", "n", "i", "y">>,
          <<"z", "e", "l", "y", "o", "n", "y", "y">>,
          <<"z", "h", "o", "l", "t", "y", "y">>,
          <<"c", "h", "e", "r", "n", "y", "y">>,
          <<"b", "e", "l", "y", "y">>,
          <<"o", "r", "a", "n", "z", "h", "e", "v", "y", "y">>,
          <<"f", "i", "o", "l", "e", "t", "o", "v", "y", "y">>>>,
      family |->
        [father |-> <<"o", "t", "e", "z">>,
         mother |-> <<"m", "a", "t">>,
         brother |-> <<"b", "r", "a", "t">>,
         sister |-> <<"s", "e", "s", "t", "r", "a">>],
      travel |->
        [airport |-> <<"a", "e", "r", "o", "p", "o", "r", "t">>,
         hotel |-> <<"o", "t", "e", "l">>,
         ticket |-> <<"b", "i", "l", "e", "t">>,
         map |-> <<"k", "a", "r", "t", "a">>]]

AR_PHRASES ==
     [hello |-> <<"m", "a", "r", "h", "a", "b", "a">>,
      thank |-> <<"s", "h", "u", "k", "r", "a", "n">>,
      goodbye |-> <<"m", "a", "U00A0", "U00F8", "a", " ", "s", "-", "s", "a", "l", "U0192", "U00C5", "m", "a">>,
      please |-> <<"m", "i", "n", " ", "f", "a", "d", "l", "a", "k">>,
      numbers |->
        <<<<"w", "a", "h", "i", "d">>,
          <<"i", "t", "h", "n", "a", "n">>,
          <<"t", "h", "a", "l", "a", "t", "h", "a">>,
          <<"a", "r", "b", "a", "U00A0", "U00F8", "a">>,
          <<"k", "h", "a", "m", "s", "a">>,
          <<"s", "i", "t", "t", "a">>,
          <<"s", "a", "b", "'", "a">>,
          <<"t", "h", "a", "m", "a", "n", "i", "y", "a">>,
          <<"t", "i", "s", "'", "a">>,
          <<"a", "s", "h", "a", "r", "a">>>>,
      colors |->
        <<<<"a", "h", "m", "a", "r">>,
          <<"a", "z", "r", "a", "q">>,
          <<"a", "k", "h", "U00B7", "U220F", "U00E7", "a", "r">>,
          <<"a", "s", "f", "a", "r">>,
          <<"a", "s", "w", "a", "d">>,
          <<"a", "b", "y", "a", "d">>,
          <<"b", "u", "r", "t", "u", "q", "a", "a", "l", "i">>,
          <<"b", "a", "n", "a", "f", "s", "a", "j", "i">>>>,
      family |->
        [father |-> <<"a", "b">>,
         mother |-> <<"u", "m", "m">>,
         brother |-> <<"a", "k", "h">>,
         sister |-> <<"u", "k", "h", "t">>],
      travel |->
        [airport |-> <<"m", "a", "t", "a", "a", "r">>,
         hotel |-> <<"f", "u", "n", "d", "u", "q">>,
         ticket |-> <<"t", "a", "d", "h", "k", "i", "r", "a">>,
         map |-> <<"k", "h", "a", "r", "i", "t", "a">>]]

common_phrases ==
  ("es" :> ES_PHRASES) @@
  ("fr" :> FR_PHRASES) @@
  ("de" :> DE_PHRASES) @@
  ("ja" :> JA_PHRASES) @@
  ("zh" :> ZH_PHRASES) @@
  ("it" :> IT_PHRASES) @@
  ("pt" :> PT_PHRASES) @@
  ("ko" :> KO_PHRASES) @@
  ("ru" :> RU_PHRASES) @@
  ("ar" :> AR_PHRASES)

\* d.get(key, default)
Get(d, key, default) == IF key \in DOMAIN d THEN d[key] ELSE default

\* ' '.join(words)
RECURSIVE JoinWithBlank(_)
JoinWithBlank(words) ==
  IF words = <<>> THEN <<>>
  ELSE IF Len(words) = 1 THEN words[1]
  ELSE words[1] \o <<" ">> \o JoinWithBlank(Tail(words))

\* f"{code}-{kind}-{order}"
LessonId(code, kind, order) == code \o "-" \o kind \o "-" \o ToString(order)

\* The characters of a language code
Letters ==
  ("es" :> <<"e", "s">>) @@ ("fr" :> <<"f", "r">>) @@ ("de" :> <<"d", "e">>) @@ ("ja" :> <<"j", "a">>) @@ ("zh" :> <<"z", "h">>) @@
  ("it" :> <<"i", "t">>) @@ ("pt" :> <<"p", "t">>) @@ ("ko" :> <<"k", "o">>) @@ ("ru" :> <<"r", "u">>) @@ ("ar" :> <<"a", "r">>)

make_greetings_lesson(code, data, order) ==
  LET hello   == Get(data, "hello", <<"h", "e", "l", "l", "o", "_">> \o Letters[code])
      goodbye == Get(data, "goodbye", <<"g", "o", "o", "d", "b", "y", "e">>)
      thank   == Get(data, "thank", <<"t", "h", "a", "n", "k", " ", "y", "o", "u">>)
  IN  [id |-> LessonId(code, "greetings", order), language |-> code, order |-> order,
       xp_reward |-> 15,
       content |-> <<hello, <<"H", "e", "l", "l", "o">>, thank, goodbye>>]

make_numbers_lesson(code, data, order) ==
  LET nums == Get(data, "numbers", <<<<"o", "n", "e">>, <<"t", "w", "o">>, <<"t", "h", "r", "e", "e">>, <<"f", "o", "u", "r">>, <<"f", "i", "v", "e">>>>)
  IN  [id |-> LessonId(code, "numbers", order), language |-> code, order |-> order,
       xp_reward |-> 15,
       content |-> <<JoinWithBlank(SubSeq(nums, 1, 3)), <<"T", "h", "r", "e", "e">>, nums[5]>>]

make_colors_lesson(code, data, order) ==
  LET cols == Get(data, "colors", <<<<"r", "e", "d">>, <<"b", "l", "u", "e">>, <<"g", "r", "e", "e", "n">>, <<"y", "e", "l", "l", "o", "w">>>>)
  IN  [id |-> LessonId(code, "colors", order), language |-> code, order |-> order,
       xp_reward |-> 15,
       content |-> <<cols[1], <<"B", "l", "u", "e">>, cols[3]>>]

make_phrases_lesson(code, data, order) ==
  [id |-> LessonId(code, "phrases", order), language |-> code, order |-> order,
   xp_reward |-> 20,
   content |-> <<<<"C", "a", "n", " ", "y", "o", "u", " ", "h", "e", "l", "p", " ", "m", "e", "?">>,
                 Get(data, "please", <<"p", "l", "e", "a", "s", "e">>),
                 <<"T", "h", "a", "n", "k", " ", "y", "o", "u">>>>]

make_family_lesson(code, data, order) ==
  LET family == Get(data, "family", <<>>)
  IN  [id |-> LessonId(code, "family", order), language |-> code, order |-> order,
       xp_reward |-> 20,
       content |-> <<Get(family, "mother", <<"m", "o", "t", "h", "e", "r">>),
                     Get(family, "father", <<"f", "a", "t", "h", "e", "r">>),
                     <<"B", "r", "o", "t", "h", "e", "r">>>>]

make_travel_lesson(code, data, order) ==
  LET travel == Get(data, "travel", <<>>)
  IN  [id |-> LessonId(code, "travel", order), language |-> code, order |-> order,
       xp_reward |-> 25,
       content |-> <<Get(travel, "airport", <<"a", "i", "r", "p", "o", "r", "t">>),
                     Get(travel, "ticket", <<"t", "i", "c", "k", "e", "t">>),
                     <<"M", "a", "p">>>>]

\* while len(SAMPLE_LESSONS[code]) < 6
MIN_LESSONS == 6

\* The index counted from 0
IdxFromZero(lessons) == Len(lessons)

\* idx = len(SAMPLE_LESSONS[code]) + 1
Idx(lessons) == Len(lessons) + 1

\* The lesson the body of the while loop appends for idx
MakeLesson(code, data, idx) ==
  IF idx = 1 THEN make_greetings_lesson(code, data, idx)
  ELSE IF idx = 2 THEN make_numbers_lesson(code, data, idx)
  ELSE IF idx = 3 THEN make_colors_lesson(code, data, idx)
  ELSE IF idx = 4 THEN make_phrases_lesson(code, data, idx)
  ELSE IF idx = 5 THEN make_family_lesson(code, data, idx)
  ELSE make_travel_lesson(code, data, idx)
(***************************************************************************)
(* Achievements (check_lesson_achievements): the ids the function goes on  *)
(* to award, in the order of its if statements.                            *)
(***************************************************************************)
Keep(cond, id) == IF cond THEN <<id>> ELSE <<>>

\* The ids awarded only above the thresholds, not at them
LessonAchievementsAbove(progress_count, streak, xp, level, perfect) ==
     Keep(progress_count = 1, "first-lesson")
  \o Keep(streak > 3, "streak-3")
  \o Keep(streak > 7, "streak-7")
  \o Keep(streak > 30, "streak-30")
  \o Keep(xp > 100, "xp-100")
  \o Keep(xp > 500, "xp-500")
  \o Keep(xp > 1000, "xp-1000")
  \o Keep(perfect, "perfect-lesson")
  \o Keep(level > 5, "level-5")
  \o Keep(level > 10, "level-10")

LessonAchievements(progress_count, streak, xp, level, perfect) ==
     Keep(progress_count = 1, "first-lesson")
  \o Keep(streak >= 3, "streak-3")
  \o Keep(streak >= 7, "streak-7")
  \o Keep(streak >= 30, "streak-30")
  \o Keep(xp >= 100, "xp-100")
  \o Keep(xp >= 500, "xp-500")
  \o Keep(xp >= 1000, "xp-1000")
  \o Keep(perfect, "perfect-lesson")
  \o Keep(level >= 5, "level-5")
  \o Keep(level >= 10, "level-10")

Contains(seq, x) == \E i \in 1..Len(seq) : seq[i] = x

\* An id taken as not awarded whatever the list holds
NotAwardedEver(achievements, achievement_id) == TRUE

\* check_and_award_achievement: achievement_id not in achievements
NotAwarded(achievements, achievement_id) == ~Contains(achievements, achievement_id)

\* The first document of the lesson, of whichever user
FirstMatchOfAnyUser(coll, user_id, lesson_id) ==
  LET hits == {i \in 1..Len(coll) : coll[i].lesson_id = lesson_id}
  IN  IF hits = {} THEN 0 ELSE CHOOSE i \in hits : \A j \in hits : i <= j

(***************************************************************************)
(* Store calls.                                                            *)
(***************************************************************************)
\* A collection of lesson_progress is the sequence of its documents in the
\* order they were inserted.
\* The query phase of lesson_progress.update_one({'user_id', 'lesson_id'}, ...):
\* the index of the first document that matches, 0 when none does
FirstMatch(coll, user_id, lesson_id) ==
  LET hits == {i \in 1..Len(coll) :
                 coll[i].user_id = user_id /\ coll[i].lesson_id = lesson_id}
  IN  IF hits = {} THEN 0 ELSE CHOOSE i \in hits : \A j \in hits : i <= j

\* lesson_progress.update_one(filter, {'$set': doc}, upsert=True) with no
\* other write between its query and its write: the first document matching
\* the filter is updated, or one is inserted
Upsert(coll, user_id, lesson_id, doc) ==
  LET k == FirstMatch(coll, user_id, lesson_id)
  IN  IF k = 0 THEN Append(coll, doc)
      ELSE [coll EXCEPT ![k] = ApplySet(@, doc)]

\* count_documents({'user_id': user_id, 'completed': True})
CountCompleted(coll, user_id) ==
  Cardinality({i \in 1..Len(coll) : coll[i].user_id = user_id /\ coll[i].completed})

(***************************************************************************)
(* get_lessons, the part that runs after the find.                         *)
(***************************************************************************)
\* lesson_progress.find({'user_id', 'language'}).to_list(100): the documents
\* that match, in the order of the collection, the first 100 at most
FindProgress(coll, user_id, language) ==
  LET found == SelectSeq(coll, LAMBDA d : d.user_id = user_id /\ d.language = language)
  IN  SubSeq(found, 1, Min(Len(found), PROGRESS_LIMIT))

\* progress_map = {p['lesson_id']: p for p in progress_docs}: the index in
\* progress_docs of the document kept for lesson_id, the last one with that
\* id; 0 when there is none
ProgressMap(progress_docs, lesson_id) ==
  LET hits == {i \in 1..Len(progress_docs) : progress_docs[i].lesson_id = lesson_id}
  IN  IF hits = {} THEN 0 ELSE CHOOSE i \in hits : \A j \in hits : j <= i

\* A lesson reported completed as soon as it has a document
GetAttempted(progress_docs, lesson_id) == ProgressMap(progress_docs, lesson_id) # 0

\* progress_map.get(lesson_id, {}).get('completed', False)
GetCompleted(progress_docs, lesson_id) ==
  LET k == ProgressMap(progress_docs, lesson_id)
  IN  IF k = 0 THEN FALSE ELSE progress_docs[k].completed

\* progress_map.get(lesson_id, {}).get('score', 0)
GetScore(progress_docs, lesson_id) ==
  LET k == ProgressMap(progress_docs, lesson_id)
  IN  IF k = 0 THEN 0 ELSE progress_docs[k].score

\* A lesson unlocked by any completed lesson of a lower order
LockedBelowAnyCompleted(lessons, progress_docs, lesson) ==
  IF lesson.order = 1 THEN FALSE
  ELSE IF lesson.order > 1
       THEN LET prev_ids == {lessons[i].id : i \in {j \in 1..Len(lessons) :
                                                     lessons[j].order < lesson.order}}
            IN  ~(\E pid \in prev_ids : GetCompleted(progress_docs, pid))
       ELSE FALSE

\* lesson_data['locked']
Locked(lessons, progress_docs, lesson) ==
  IF lesson.order = 1 THEN FALSE
  ELSE IF lesson.order > 1
       THEN LET prev_ids == {lessons[i].id : i \in {j \in 1..Len(lessons) :
                                                     lessons[j].order = lesson.order - 1}}
            IN  ~(\E pid \in prev_ids : GetCompleted(progress_docs, pid))
       ELSE FALSE

\* lesson_data, without the title and the description of the lesson
LessonData(lessons, progress_docs, lesson) ==
  [id |-> lesson.id, order |-> lesson.order, xp_reward |-> lesson.xp_reward,
   completed |-> GetCompleted(progress_docs, lesson.id),
   score |-> GetScore(progress_docs, lesson.id),
   locked |-> Locked(lessons, progress_docs, lesson)]

\* The list get_lessons returns
LessonList(coll, user_id, language) ==
  LET lessons == LessonsOf(language)
      progress_docs == FindProgress(coll, user_id, language)
  IN  [i \in 1..Len(lessons) |-> LessonData(lessons, progress_docs, lessons[i])]

\* A document that marks every attempt as completed
ProgressDocAlwaysCompleted(user_id, lesson_id, language, passed, score_pct, now) ==
  [user_id |-> user_id, lesson_id |-> lesson_id, language |-> language,
   completed |-> TRUE, score |-> score_pct, completed_at |-> now]

\* The document complete_lesson saves
ProgressDoc(user_id, lesson_id, language, passed, score_pct, now) ==
  [user_id |-> user_id, lesson_id |-> lesson_id, language |-> language,
   completed |-> passed, score |-> score_pct, completed_at |-> now]

\* user_doc of register
NoLanguage == "None"

\* A user who registers with a streak of 1
NewUserOnStreak(user_id, email) ==
  [id |-> user_id, email |-> email, xp |-> 0, level |-> 1, streak |-> 1, hearts |-> FULL_HEARTS,
   current_language |-> NoLanguage, languages_learning |-> <<>>,
   achievements |-> <<>>, last_practice_date |-> None]

NewUser(user_id, email) ==
  [id |-> user_id, email |-> email, xp |-> 0, level |-> 1, streak |-> 0, hearts |-> FULL_HEARTS,
   current_language |-> NoLanguage, languages_learning |-> <<>>,
   achievements |-> <<>>, last_practice_date |-> None]

(***************************************************************************)
(* complete_lesson and start_language, the part that runs before the first  *)
(* update_one.                                                             *)
(***************************************************************************)
\* What complete_lesson computes between the lesson lookup and the first
\* update_one
\* The new level reported after every attempt
NewLevelAlways(new_level, old_level) == new_level

\* new_level if new_level > old_level else None; None is 0 here, which is
\* the level of no profile
NewLevelIfRaised(new_level, old_level) ==
  IF new_level > old_level THEN new_level ELSE 0

Grade(user, lesson, answers, today) ==
  LET correct      == CountCorrect(lesson.content, answers)
      total        == Len(lesson.content)
      score_pct    == ScorePct(correct, total)
      passed       == Passed(score_pct)
      base_xp      == BaseXp(lesson.xp_reward, passed)
      st           == UpdateStreak(user, today)
      total_xp     == base_xp + st.streak_bonus
      new_total_xp == user.xp + total_xp
      new_level    == LevelOf(new_total_xp)
  IN  [update_data |-> UpdateData(user, new_total_xp, st.new_streak, today, passed),
       score_pct   |-> score_pct,
       now         |-> isoformat(today),
       result      |-> [correct |-> correct, total |-> total, xp_earned |-> total_xp,
                        passed |-> passed,
                        new_level |-> NewLevelIfRaised(new_level, user.level),
                        streak_bonus |-> st.streak_bonus]]

\* languages and the $set of start_language
StartLanguageUpdate(user, code) ==
  LET languages == IF Contains(user.languages_learning, code)
                   THEN user.languages_learning
                   ELSE Append(user.languages_learning, code)
  IN  [current_language |-> code, languages_learning |-> languages]

(***************************************************************************)
(* A request that runs alone.  db is the record of the two collections;    *)
(* the request's store calls are applied one after the other with no other *)
(* request between them.                                                   *)
(***************************************************************************)
\* check_and_award_achievement
AwardAlone(coll, user_id, achievement_id) ==
  IF ~NotAwarded(coll[user_id].achievements, achievement_id) THEN coll
  ELSE [coll EXCEPT ![user_id] =
          ApplySet(@, [achievements |-> Append(coll[user_id].achievements, achievement_id)])]

\* The one element of a singleton set.  Binding a value to the element of a
\* singleton computes it once, before the expression that uses it.
The(S) == CHOOSE x \in S : TRUE

RECURSIVE AwardAllAlone(_, _, _)
AwardAllAlone(coll, user_id, pending) ==
  IF pending = <<>> THEN coll
  ELSE The({ AwardAllAlone(awarded, user_id, Tail(pending)) :
               awarded \in {AwardAlone(coll, user_id, Head(pending))} })

CompleteLessonAlone(db, user_id, language, lesson_id, answers, today) ==
  LET lessons == LessonsOf(language)
      k == FindLesson(lessons, lesson_id)
  IN  IF k = 0 THEN db
      ELSE The({ The({ The({ [users |-> AwardAllAlone(updated, user_id, pending),
                              lesson_progress |-> progress] :
                   pending \in {LessonAchievements(CountCompleted(progress, user_id),
                                                   g.update_data.streak, g.update_data.xp,
                                                   g.update_data.level, g.score_pct = 100)} }) :
                 updated \in {[db.users EXCEPT ![user_id] = ApplySet(@, g.update_data)]},
                 progress \in {Upsert(db.lesson_progress, user_id, lesson_id,
                                      ProgressDoc(user_id, lesson_id, language,
                                                  g.result.passed, g.score_pct, g.now))} }) :
               g \in {Grade(db.users[user_id], lessons[k], answers, today)} })

StartLanguageAlone(db, user_id, code) ==
  IF ~Contains(LANGUAGES, code) THEN db
  ELSE LET update == StartLanguageUpdate(db.users[user_id], code)
           updated == [db.users EXCEPT ![user_id] = ApplySet(@, update)]
       IN  [users |-> IF Len(update.languages_learning) >= 3
                      THEN AwardAlone(updated, user_id, "multi-language")
                      ELSE updated,
            lesson_progress |-> db.lesson_progress]

(***************************************************************************)
(* Inputs of the requests.                                                 *)
(***************************************************************************)
\* (language, lesson_id) of a complete_lesson request; the last two name a
\* lesson of another course and an unknown language
RequestLessons ==
  { <<"es", "es-basics-1">>, <<"es", "es-basics-2">>,
    <<"es", "fr-basics-1">>, <<"xx", "es-basics-1">> }

WrongAnswer == <<"z", "z", "z">>

\* s in upper case
upper(s) == [i \in 1..Len(s) |->
               IF \E c \in DOMAIN UpperCase : UpperCase[c] = s[i]
               THEN CHOOSE c \in DOMAIN UpperCase : UpperCase[c] = s[i]
               ELSE s[i]]

\* The expected answer as a learner may type it: in other case, with blanks
\* around it
Typed(expected) == <<" ">> \o upper(expected) \o <<"U00A0", "U000A">>

\* A submission with the first n answers right, as typed or verbatim
FirstRight(content, n, typed) ==
  [i \in 1..Len(content) |->
     IF i <= n THEN (IF typed THEN Typed(content[i]) ELSE content[i]) ELSE WrongAnswer]

\* Submissions for a lesson: no answer at all; all answers but the last
\* right; every answer right as typed, followed by one answer more than the
\* lesson has items
Submissions(content) ==
  { <<>>,
    FirstRight(content, Len(content) - 1, FALSE),
    Append(FirstRight(content, Len(content), TRUE), content[1]) }

\* Submissions of every length up to one answer more than the lesson has
\* items, with any of the answers right, as typed or verbatim
GradeSubmissions(content) ==
  { [i \in 1..n |->
       IF i > Len(content) THEN content[1]
       ELSE IF i \notin right THEN WrongAnswer
       ELSE IF i % 2 = 0 THEN Typed(content[i]) ELSE content[i]] :
    right \in SUBSET (1..Len(content)), n \in 0..(Len(content) + 1) }

\* The submissions sent with each request target (for a target that is not
\* found the answers are never read)
RequestAnswers ==
  [t \in RequestLessons |->
     LET lessons == LessonsOf(t[1])
         k == FindLesson(lessons, t[2])
     IN  IF k = 0 THEN {<<>>} ELSE Submissions(lessons[k].content)]

\* code of a start_language request; "xx" is not in LANGUAGES
RequestCodes == {"es", "de", "xx"}

(***************************************************************************)
(* The learner "u1".  On the day they registered they started "es" and     *)
(* "fr", passed es-basics-1 twice with three of four answers right and     *)
(* failed es-basics-2 four times with no answer; they have passed          *)
(* es-basics-1 once a day since, up to the day before the run begins.      *)
(* Every request of this history ran alone.                                *)
(***************************************************************************)
RECURSIVE RepeatLesson(_, _, _, _, _)
RepeatLesson(db, times, lesson_id, answers, today) ==
  IF times = 0 THEN db
  ELSE The({ RepeatLesson(next, times - 1, lesson_id, answers, today) :
               next \in {CompleteLessonAlone(db, "u1", "es", lesson_id, answers, today)} })

ThreeOfFour == FirstRight(ES_LESSONS[1].content, 3, FALSE)

\* The day (on the clock) on which a run begins: the day after the last day
\* of practice
RunStart == VeteranDays + 1

\* The two collections at the end of the day `first` on which the learner
\* registered
FirstDay(first) ==
  The({ The({ The({ RepeatLesson(passed, 4, "es-basics-2", <<>>, date) :
                      passed \in {RepeatLesson(started, 2, "es-basics-1", ThreeOfFour, date)} }) :
                started \in {StartLanguageAlone(spanish, "u1", "fr")} }) :
          spanish \in {StartLanguageAlone(
                         [users |-> ("u1" :> NewUser("u1", "u1@x.org")), lesson_progress |-> <<>>],
                         "u1", "es")},
          date \in {DateOfDay(first)} })

\* db after one pass of es-basics-1 on each of the days from..to, in the
\* order of the days (the days are split in two halves to keep the
\* evaluation shallow)
RECURSIVE Practise(_, _, _)
Practise(db, from, to) ==
  IF from > to THEN db
  ELSE IF from = to
  THEN The({ CompleteLessonAlone(db, "u1", "es", "es-basics-1", ThreeOfFour, date) :
               date \in {DateOfDay(from)} })
  ELSE The({ Practise(half, from + (to - from) \div 2 + 1, to) :
               half \in {Practise(db, from, from + (to - from) \div 2)} })

\* The two collections at the end of day `day`, for a learner who registered
\* on day `first`
SeedAfter(first, day) ==
  The({ Practise(registered, first + 1, day) : registered \in {FirstDay(first)} })

SeedDb == SeedAfter(RunStart - 1 - SeedDays, RunStart - 1)

VeteranDb == SeedAfter(0, RunStart - 1)

\* A learner who registered MidDays days before the last day of practice
MidDb == SeedAfter(RunStart - 1 - MidDays, RunStart - 1)

\* Learners who have practised every day for longer (they registered before
\* the clock was started)
NearLevel5Db == SeedAfter(RunStart - 1 - NearLevel5Days, RunStart - 1)

NearXp500Db == SeedAfter(RunStart - 1 - NearXp500Days, RunStart - 1)

NearLevel10Db == SeedAfter(RunStart - 1 - NearLevel10Days, RunStart - 1)

NearMonthDb == SeedAfter(RunStart - 1 - NearMonthDays, RunStart - 1)

(***************************************************************************)
(* The store, the clock and the requests.                                  *)
(***************************************************************************)
\* The users who send requests in a run
UserIds == {"u1", "u2"}

\* The ids uuid4 gives to the users who register in a run
NewIds == {"u2", "u3"}

\* email of a register request: the address of "u1", or a new one
Emails == {"u1@x.org", "new@x.org"}

\* The register requests of a run, each one coroutine
Registrations == {"g1", "g2"}

\* The requests of a run; each is one coroutine, and they may all be in
\* flight together
Requests == {"r1", "r2"}

Operations == {"complete_lesson", "start_language", "refill_hearts"}

\* language of a get_lessons request; "xx" has no lessons
RequestLanguages == {"es", "fr", "xx"}

VARIABLES
  users,            \* collection users: user id -> document, registered ids only
  lesson_progress,  \* collection lesson_progress: its documents, in insertion order
  clock,            \* midnights (UTC) passed since FirstDate
  req               \* request -> the state of its coroutine

vars == <<users, lesson_progress, clock, req>>

\* A request that has not arrived
New == [pc |-> "new"]

\* now.date() as the handler samples it
Today == DateOfDay(clock)

\* The store of a run: "u1" with their history, and "u2" who has just
\* registered
Init ==
  /\ users = SeedDb.users @@ ("u2" :> NewUser("u2", "u2@x.org"))
  /\ lesson_progress = SeedDb.lesson_progress
  /\ clock = RunStart
  /\ req = [r \in Requests |-> New]

\* The store when requests of one user never overlap: "u1" with a short or a
\* longer history, up to a month of daily practice, and nobody else
\* registered yet; one register request arrives during the run
InitSerial ==
  /\ \E db \in {SeedDb, MidDb, NearLevel5Db, NearXp500Db, NearLevel10Db, NearMonthDb} :
       /\ users = db.users
       /\ lesson_progress = db.lesson_progress
  /\ clock = RunStart
  /\ req = [r \in Requests \cup {"g1"} |-> New]

\* The store when users register: "u1" with the short history, and both
\* register requests to come
InitRegister ==
  /\ users = SeedDb.users
  /\ lesson_progress = SeedDb.lesson_progress
  /\ clock = RunStart
  /\ req = [r \in Requests \cup Registrations |-> New]

InitVeteran ==
  /\ users = VeteranDb.users @@ ("u2" :> NewUser("u2", "u2@x.org"))
  /\ lesson_progress = VeteranDb.lesson_progress
  /\ clock = RunStart
  /\ req = [r \in Requests |-> New]

(***************************************************************************)
(* Requests.  The pc of a coroutine names the store call it waits for; a   *)
(* coroutine at "done" has answered, with status 200 or 404, and a         *)
(* complete_lesson that answered 200 carries its QuizResult.               *)
(***************************************************************************)
\* The handler returns
Return(r) ==
  req' = [req EXCEPT ![r] =
    IF req[r].op = "complete_lesson"
    THEN [op |-> req[r].op, pc |-> "done", user_id |-> req[r].user_id, status |-> 200,
          result |-> req[r].result]
    ELSE [op |-> req[r].op, pc |-> "done", user_id |-> req[r].user_id, status |-> 200]]

\* raise HTTPException(status_code=404)
NotFound(r) ==
  req' = [req EXCEPT ![r] =
    [op |-> req[r].op, pc |-> "done", user_id |-> req[r].user_id, status |-> 404]]

\* The coroutine goes on to check_and_award_achievement for the ids in
\* pending, or returns when there is none
ThenAward(r, pending) ==
  IF pending = <<>>
  THEN Return(r)
  ELSE req' = [req EXCEPT ![r] =
         [@ EXCEPT !.pc = "award_find", !.pending = pending, !.achievements = <<>>]]

\* register up to insert_one: find_one({'email': email}); 400 when a document
\* has the email, else user_doc with a new id (uuid4: an id that no document
\* and no other user_doc has)
register(g, email, user_id) ==
  /\ g \in DOMAIN req
  /\ req[g] = New
  /\ IF \E u \in DOMAIN users : users[u].email = email
     THEN req' = [req EXCEPT ![g] = [op |-> "register", pc |-> "done", status |-> 400]]
     ELSE /\ user_id \notin DOMAIN users
          /\ \A q \in DOMAIN req :
               req[q].pc = "insert_user" => req[q].user_doc.id # user_id
          /\ req' = [req EXCEPT ![g] =
               [op |-> "register", pc |-> "insert_user",
                user_doc |-> NewUser(user_id, email)]]
  /\ UNCHANGED <<users, lesson_progress, clock>>

\* register: insert_one(user_doc), and the response
insert_user(g) ==
  /\ g \in DOMAIN req
  /\ req[g].pc = "insert_user"
  /\ users' = users @@ (req[g].user_doc.id :> req[g].user_doc)
  /\ req' = [req EXCEPT ![g] = [op |-> "register", pc |-> "done", status |-> 200]]
  /\ UNCHANGED <<lesson_progress, clock>>

\* get_current_user: find_one({'id': user_id}) for a request of kind op; the
\* document read is the handler's argument user
get_current_user(r, user_id, op) ==
  /\ req[r] = New
  /\ user_id \in DOMAIN users
  /\ req' = [req EXCEPT ![r] =
       [op |-> op, pc |-> "handler", user_id |-> user_id, user |-> users[user_id]]]
  /\ UNCHANGED <<users, lesson_progress, clock>>

\* A complete_lesson that refuses a lesson get_lessons reports as locked
complete_lesson_if_unlocked(r, language, lesson_id, answers) ==
  /\ req[r].pc = "handler"
  /\ req[r].op = "complete_lesson"
  /\ LET lessons == LessonsOf(language)
         k == FindLesson(lessons, lesson_id)
     IN  IF k = 0
         THEN req' = [req EXCEPT ![r] =
                [op |-> "complete_lesson", pc |-> "done", user_id |-> req[r].user_id,
                 status |-> 404, language |-> language, lesson_id |-> lesson_id]]
         ELSE IF LessonList(lesson_progress, req[r].user_id, language)[k].locked
         THEN req' = [req EXCEPT ![r] =
                [op |-> "complete_lesson", pc |-> "done", user_id |-> req[r].user_id,
                 status |-> 403, language |-> language, lesson_id |-> lesson_id]]
         ELSE LET g == Grade(req[r].user, lessons[k], answers, Today)
              IN  req' = [req EXCEPT ![r] =
                    [op |-> "complete_lesson", pc |-> "update_user",
                     user_id |-> req[r].user_id, user |-> req[r].user,
                     language |-> language, lesson_id |-> lesson_id, answers |-> answers,
                     update_data |-> g.update_data, score_pct |-> g.score_pct,
                     now |-> g.now, result |-> g.result, pending |-> <<>>,
                     achievements |-> <<>>]]
  /\ UNCHANGED <<users, lesson_progress, clock>>

\* complete_lesson up to the first update_one: 404 when the lesson is not
\* found, else the grading
complete_lesson(r, language, lesson_id, answers) ==
  /\ req[r].pc = "handler"
  /\ req[r].op = "complete_lesson"
  /\ LET lessons == LessonsOf(language)
         k == FindLesson(lessons, lesson_id)
     IN  IF k = 0
         THEN req' = [req EXCEPT ![r] =
                [op |-> "complete_lesson", pc |-> "done", user_id |-> req[r].user_id,
                 status |-> 404, language |-> language, lesson_id |-> lesson_id]]
         ELSE LET g == Grade(req[r].user, lessons[k], answers, Today)
              IN  req' = [req EXCEPT ![r] =
                    [op |-> "complete_lesson", pc |-> "update_user",
                     user_id |-> req[r].user_id, user |-> req[r].user,
                     language |-> language, lesson_id |-> lesson_id, answers |-> answers,
                     update_data |-> g.update_data, score_pct |-> g.score_pct,
                     now |-> g.now, result |-> g.result, pending |-> <<>>,
                     achievements |-> <<>>]]
  /\ UNCHANGED <<users, lesson_progress, clock>>

\* start_language up to update_one: 404 for a code that is not in LANGUAGES
start_language(r, code) ==
  /\ req[r].pc = "handler"
  /\ req[r].op = "start_language"
  /\ IF ~Contains(LANGUAGES, code)
     THEN NotFound(r)
     ELSE LET update == StartLanguageUpdate(req[r].user, code)
          IN  req' = [req EXCEPT ![r] =
                [op |-> "start_language", pc |-> "update_user", user_id |-> req[r].user_id,
                 user |-> None, update_data |-> update,
                 pending |-> IF Len(update.languages_learning) >= 3
                             THEN <<"multi-language">> ELSE <<>>,
                 achievements |-> <<>>]]
  /\ UNCHANGED <<users, lesson_progress, clock>>

\* A refill that writes back the whole profile it read, with hearts at 5
refill_hearts_whole_profile(r) ==
  /\ req[r].pc = "handler"
  /\ req[r].op = "refill_hearts"
  /\ req' = [req EXCEPT ![r] =
       [op |-> "refill_hearts", pc |-> "update_user", user_id |-> req[r].user_id,
        user |-> None, update_data |-> [req[r].user EXCEPT !.hearts = FULL_HEARTS],
        pending |-> <<>>, achievements |-> <<>>]]
  /\ UNCHANGED <<users, lesson_progress, clock>>

\* refill_hearts up to update_one
refill_hearts(r) ==
  /\ req[r].pc = "handler"
  /\ req[r].op = "refill_hearts"
  /\ req' = [req EXCEPT ![r] =
       [op |-> "refill_hearts", pc |-> "update_user", user_id |-> req[r].user_id,
        user |-> None, update_data |-> [hearts |-> FULL_HEARTS], pending |-> <<>>,
        achievements |-> <<>>]]
  /\ UNCHANGED <<users, lesson_progress, clock>>

\* users.update_one({'id': user['id']}, {'$set': update_data}) of the three
\* handlers, and the code of the handler up to its next store call.  The
\* profile read at authentication and the submission are not read again.
update_user(r) ==
  /\ req[r].pc = "update_user"
  /\ users' = [users EXCEPT ![req[r].user_id] = ApplySet(@, req[r].update_data)]
  /\ IF req[r].op = "complete_lesson"
     THEN req' = [req EXCEPT ![r] =
            [@ EXCEPT !.pc = "save_progress", !.user = None, !.answers = <<>>]]
     ELSE ThenAward(r, req[r].pending)
  /\ UNCHANGED <<lesson_progress, clock>>

\* complete_lesson, "Save progress": the query phase of the upsert.  A
\* document that matches is updated at once; when none matches, the store
\* goes on to insert one, and without a unique index on (user_id,
\* lesson_id) another upsert may run its query before this insert.
save_progress(r) ==
  /\ req[r].pc = "save_progress"
  /\ LET k == FirstMatch(lesson_progress, req[r].user_id, req[r].lesson_id)
     IN  IF k = 0
         THEN /\ req' = [req EXCEPT ![r] = [@ EXCEPT !.pc = "insert_progress"]]
              /\ UNCHANGED lesson_progress
         ELSE /\ lesson_progress' =
                   [lesson_progress EXCEPT ![k] =
                      ApplySet(@, ProgressDoc(req[r].user_id, req[r].lesson_id,
                                              req[r].language, req[r].result.passed,
                                              req[r].score_pct, req[r].now))]
              /\ req' = [req EXCEPT ![r] = [@ EXCEPT !.pc = "count_completed"]]
  /\ UNCHANGED <<users, clock>>

\* complete_lesson, "Save progress": the insert of an upsert that matched no
\* document
insert_progress(r) ==
  /\ req[r].pc = "insert_progress"
  /\ lesson_progress' =
       Append(lesson_progress,
              ProgressDoc(req[r].user_id, req[r].lesson_id, req[r].language,
                          req[r].result.passed, req[r].score_pct, req[r].now))
  /\ req' = [req EXCEPT ![r] = [@ EXCEPT !.pc = "count_completed"]]
  /\ UNCHANGED <<users, clock>>

\* check_lesson_achievements: the count of completed lessons and the
\* conditions on the handler's values
check_lesson_achievements(r) ==
  /\ req[r].pc = "count_completed"
  /\ ThenAward(r, LessonAchievements(CountCompleted(lesson_progress, req[r].user_id),
                                     req[r].update_data.streak, req[r].update_data.xp,
                                     req[r].update_data.level, req[r].score_pct = 100))
  /\ UNCHANGED <<users, lesson_progress, clock>>

\* check_and_award_achievement: find_one; the id is appended to the list
\* read when it is not in it
award_find(r) ==
  /\ req[r].pc = "award_find"
  /\ LET achievements == users[req[r].user_id].achievements
         id == Head(req[r].pending)
     IN  IF NotAwarded(achievements, id)
         THEN req' = [req EXCEPT ![r] =
                [@ EXCEPT !.pc = "award_update", !.achievements = Append(achievements, id)]]
         ELSE ThenAward(r, Tail(req[r].pending))
  /\ UNCHANGED <<users, lesson_progress, clock>>

\* check_and_award_achievement: update_one({'$set': {'achievements': ...}})
award_update(r) ==
  /\ req[r].pc = "award_update"
  /\ users' = [users EXCEPT ![req[r].user_id] =
                 ApplySet(@, [achievements |-> req[r].achievements])]
  /\ ThenAward(r, Tail(req[r].pending))
  /\ UNCHANGED <<lesson_progress, clock>>

\* The clock passes midnight UTC
Tick ==
  /\ clock < RunStart + MaxDays
  /\ clock' = clock + 1
  /\ UNCHANGED <<users, lesson_progress, req>>

Next ==
  \/ \E r \in Requests, u \in UserIds, op \in Operations : get_current_user(r, u, op)
  \/ \E r \in Requests, t \in RequestLessons : \E a \in RequestAnswers[t] :
       complete_lesson(r, t[1], t[2], a)
  \/ \E r \in Requests, code \in RequestCodes : start_language(r, code)
  \/ \E r \in Requests : refill_hearts(r)
  \/ \E r \in Requests : update_user(r)
  \/ \E r \in Requests : save_progress(r)
  \/ \E r \in Requests : insert_progress(r)
  \/ \E r \in Requests : check_lesson_achievements(r)
  \/ \E r \in Requests : award_find(r)
  \/ \E r \in Requests : award_update(r)
  \/ Tick

Spec == Init /\ [][Next]_vars

SpecVeteran == InitVeteran /\ [][Next]_vars


(***************************************************************************)
(* One request of a user at a time: a request is accepted only when no     *)
(* other request of the same user is in flight.  Requests of different     *)
(* users overlap, and users register during the run.                       *)
(***************************************************************************)
InFlight(r) == req[r].pc \notin {"new", "done"}

Alone(r, user_id) ==
  \A q \in Requests \ {r} : InFlight(q) => req[q].user_id # user_id

NextSerial ==
  \/ \E g \in Registrations, email \in Emails, u \in UserIds : register(g, email, u)
  \/ \E g \in Registrations : insert_user(g)
  \/ \E r \in Requests, u \in UserIds, op \in Operations :
       Alone(r, u) /\ get_current_user(r, u, op)
  \/ \E r \in Requests, t \in RequestLessons : \E a \in RequestAnswers[t] :
       complete_lesson(r, t[1], t[2], a)
  \/ \E r \in Requests, code \in RequestCodes : start_language(r, code)
  \/ \E r \in Requests : refill_hearts(r)
  \/ \E r \in Requests : update_user(r)
  \/ \E r \in Requests : save_progress(r)
  \/ \E r \in Requests : insert_progress(r)
  \/ \E r \in Requests : check_lesson_achievements(r)
  \/ \E r \in Requests : award_find(r)
  \/ \E r \in Requests : award_update(r)
  \/ Tick

SpecSerial == InitSerial /\ [][NextSerial]_vars

(***************************************************************************)
(* Registration.  register awaits find_one and insert_one, and the steps   *)
(* of other requests and of other registrations run between the two: here  *)
(* two register requests and the refills of the registered users.          *)
(***************************************************************************)
NextRegister ==
  \/ \E g \in Registrations, email \in Emails, u \in NewIds : register(g, email, u)
  \/ \E g \in Registrations : insert_user(g)
  \/ \E r \in Requests, u \in UserIds \cup NewIds : get_current_user(r, u, "refill_hearts")
  \/ \E r \in Requests : refill_hearts(r)
  \/ \E r \in Requests : update_user(r)

SpecRegister == InitRegister /\ [][NextRegister]_vars

(***************************************************************************)
(* Reading the lessons.  A get_lessons request overlaps any request; the   *)
(* requests that write are accepted one at a time for a user.              *)
(***************************************************************************)
\* get_lessons: the find and the list built from it
get_lessons(r, language) ==
  /\ req[r].pc = "handler"
  /\ req[r].op = "get_lessons"
  /\ req' = [req EXCEPT ![r] =
       [op |-> "get_lessons", pc |-> "done", user_id |-> req[r].user_id, status |-> 200,
        language |-> language,
        result |-> LessonList(lesson_progress, req[r].user_id, language)]]
  /\ UNCHANGED <<users, lesson_progress, clock>>

Writing(r) == InFlight(r) /\ req[r].op # "get_lessons"

WritesAlone(r, user_id) ==
  \A q \in Requests \ {r} : Writing(q) => req[q].user_id # user_id

NextLessons ==
  \/ \E r \in Requests, u \in UserIds, op \in Operations :
       WritesAlone(r, u) /\ get_current_user(r, u, op)
  \/ \E r \in Requests, u \in UserIds : get_current_user(r, u, "get_lessons")
  \/ \E r \in Requests, language \in RequestLanguages : get_lessons(r, language)
  \/ \E r \in Requests, t \in RequestLessons : \E a \in RequestAnswers[t] :
       complete_lesson(r, t[1], t[2], a)
  \/ \E r \in Requests, code \in RequestCodes : start_language(r, code)
  \/ \E r \in Requests : refill_hearts(r)
  \/ \E r \in Requests : update_user(r)
  \/ \E r \in Requests : save_progress(r)
  \/ \E r \in Requests : insert_progress(r)
  \/ \E r \in Requests : check_lesson_achievements(r)
  \/ \E r \in Requests : award_find(r)
  \/ \E r \in Requests : award_update(r)
  \/ Tick

SpecLessons == Init /\ [][NextLessons]_vars

(***************************************************************************)
(* Grading alone: one complete_lesson request of "u1" for any lesson of    *)
(* the catalog, with any of GradeSubmissions.                              *)
(***************************************************************************)
NextGrade ==
  \/ get_current_user("r1", "u1", "complete_lesson")
  \/ \E code \in DOMAIN SAMPLE_LESSONS : \E k \in 1..Len(SAMPLE_LESSONS[code]) :
       \E a \in GradeSubmissions(SAMPLE_LESSONS[code][k].content) :
         complete_lesson("r1", code, SAMPLE_LESSONS[code][k].id, a)
  \/ update_user("r1")
  \/ save_progress("r1")
  \/ insert_progress("r1")
  \/ check_lesson_achievements("r1")
  \/ award_find("r1")
  \/ award_update("r1")

SpecGrade == Init /\ [][NextGrade]_vars

(***************************************************************************)
(* The score alone, for the lessons of "es", for a lesson that has no      *)
(* graded item and for a lesson of LongLesson items (the catalog has       *)
(* neither).                                                               *)
(***************************************************************************)
LongContent == [i \in 1..LongLesson |-> <<"h", "o", "l", "a">>]

ScoreContents ==
  {<<>>, LongContent} \cup {ES_LESSONS[k].content : k \in 1..Len(ES_LESSONS)}

\* For the long lesson: the first n answers right, for every n
ScoreAnswers(content) ==
  IF content = <<>> THEN {<<>>, <<WrongAnswer>>}
  ELSE IF content = LongContent
  THEN {FirstRight(content, n, FALSE) : n \in 0..Len(content)}
  ELSE Submissions(content)

\* complete_lesson, "Calculate score", for a lesson with these items
calculate_score(r, content, answers) ==
  /\ req[r] = New
  /\ req' = [req EXCEPT ![r] =
       [op |-> "score", pc |-> "scored", content |-> content, answers |-> answers,
        outcome |-> CalculateScore(content, answers)]]
  /\ UNCHANGED <<users, lesson_progress, clock>>

NextScore ==
  \E r \in Requests, content \in ScoreContents :
    \E answers \in ScoreAnswers(content) : calculate_score(r, content, answers)

SpecScore == Init /\ [][NextScore]_vars

(***************************************************************************)
(* The module is loaded.  req holds, under "import", the position of the   *)
(* loop over LANGUAGES and SAMPLE_LESSONS as built so far; no request is   *)
(* served before the module is loaded.  The code runs to its end, so the   *)
(* loop is given weak fairness.                                            *)
(***************************************************************************)
InitImport ==
  /\ users = <<>>
  /\ lesson_progress = <<>>
  /\ clock = RunStart
  /\ req = ("import" :> [op |-> "import", pc |-> "for", lang |-> 0,
                         lessons |-> LITERAL_LESSONS])

\* for lang in LANGUAGES: the next language, with an empty list when
\* SAMPLE_LESSONS has none for it; the module is loaded after the last one
for_lang ==
  /\ "import" \in DOMAIN req
  /\ req["import"].pc = "for"
  /\ LET m == req["import"]
     IN  IF m.lang = Len(LANGUAGES)
         THEN req' = [req EXCEPT !["import"] = [@ EXCEPT !.pc = "loaded"]]
         ELSE LET code == LANGUAGES[m.lang + 1]
              IN  req' = [req EXCEPT !["import"] =
                    [@ EXCEPT !.pc = "while", !.lang = m.lang + 1,
                              !.lessons = IF code \in DOMAIN m.lessons THEN m.lessons
                                          ELSE m.lessons @@ (code :> <<>>)]]
  /\ UNCHANGED <<users, lesson_progress, clock>>

\* while len(SAMPLE_LESSONS[code]) < 6
while_lessons ==
  /\ "import" \in DOMAIN req
  /\ req["import"].pc = "while"
  /\ LET m == req["import"]
         code == LANGUAGES[m.lang]
     IN  req' = [req EXCEPT !["import"] =
           [@ EXCEPT !.pc = IF Len(m.lessons[code]) < MIN_LESSONS THEN "append" ELSE "for"]]
  /\ UNCHANGED <<users, lesson_progress, clock>>

\* The body of the while loop: SAMPLE_LESSONS[code].append(make_..._lesson(...))
append_lesson ==
  /\ "import" \in DOMAIN req
  /\ req["import"].pc = "append"
  /\ LET m == req["import"]
         code == LANGUAGES[m.lang]
         data == Get(common_phrases, code, <<>>)
         idx == Idx(m.lessons[code])
     IN  req' = [req EXCEPT !["import"] =
           [@ EXCEPT !.pc = "while",
                     !.lessons = [m.lessons EXCEPT ![code] =
                                    Append(@, MakeLesson(code, data, idx))]]]
  /\ UNCHANGED <<users, lesson_progress, clock>>

NextImport == for_lang \/ while_lessons \/ append_lesson

SpecImport == InitImport /\ [][NextImport]_vars /\ WF_vars(NextImport)

(***************************************************************************)
(* Two completions of "u1" that overlap freely, for lessons further along  *)
(* the Spanish course: es-basics-2 (15 XP) and es-travel-6 (25 XP).        *)
(***************************************************************************)
CourseLessons == {"es-basics-2", "es-travel-6"}

NextCourse ==
  \/ \E r \in Requests : get_current_user(r, "u1", "complete_lesson")
  \/ \E r \in Requests, lesson_id \in CourseLessons :
       \E a \in Submissions(ES_LESSONS[FindLesson(ES_LESSONS, lesson_id)].content) :
         complete_lesson(r, "es", lesson_id, a)
  \/ \E r \in Requests : update_user(r)
  \/ \E r \in Requests : save_progress(r)
  \/ \E r \in Requests : insert_progress(r)
  \/ \E r \in Requests : check_lesson_achievements(r)
  \/ \E r \in Requests : award_find(r)
  \/ \E r \in Requests : award_update(r)

SpecCourse == Init /\ [][NextCourse]_vars

(***************************************************************************)
(* Properties.  A complete_lesson request is followed through its steps:   *)
(* it is graded when it moves from "handler" to "update_user", and it      *)
(* writes the profile when it moves from "update_user" to "save_progress". *)
(***************************************************************************)
IsCompletion(r) == req[r].pc # "new" /\ req[r].op = "complete_lesson"

\* The request holds a grading that it has not written yet
Graded(r) == IsCompletion(r) /\ req[r].pc = "update_user"

\* The request has answered 200 to a complete_lesson
Answered(r) == IsCompletion(r) /\ req[r].pc = "done" /\ req[r].status = 200

\* The step that grades, and the step that writes the profile
GradeStep(r) ==
  /\ req[r].pc = "handler"
  /\ req[r].op = "complete_lesson"
  /\ req'[r].pc = "update_user"

WriteStep(r) == Graded(r) /\ req'[r].pc = "save_progress"

\* The lesson a graded request is about, looked up in the catalog
LessonOfRequest(r) ==
  LET course == SAMPLE_LESSONS[req[r].language]
  IN  course[CHOOSE k \in 1..Len(course) : course[k].id = req[r].lesson_id]

\* The day of the clock on which a date string falls
DayOfString(s) == CHOOSE k \in 0..(RunStart + MaxDays) : isoformat(DateOfDay(k)) = s

\* The xp a user had when the run began (0 for a user who has just registered)
XpAtStart(db, u) == IF u \in DOMAIN db.users THEN db.users[u].xp ELSE 0

\* The sum of the xp_earned of the answered completions of u among rs
RECURSIVE XpEarned(_, _)
XpEarned(rs, u) ==
  IF rs = {} THEN 0
  ELSE LET r == CHOOSE x \in rs : TRUE
       IN  (IF Answered(r) /\ req[r].user_id = u THEN req[r].result.xp_earned ELSE 0)
           + XpEarned(rs \ {r}, u)

\* C1: when every complete_lesson request of a user has finished, the xp
\* stored for the user is the xp at the start plus the sum of the xp_earned
\* the requests returned, also when the requests overlapped: no profile
\* update is lost.
NoLostUpdate ==
  \A u \in DOMAIN users :
    (\A r \in Requests : (IsCompletion(r) /\ req[r].user_id = u) => req[r].pc = "done")
      => users[u].xp = XpAtStart(SeedDb, u) + XpEarned(Requests, u)

\* C2: the xp stored for a user never decreases from one store state to the
\* next, in every execution, interleaved requests included.
XpNeverDecreases ==
  [][\A u \in DOMAIN users : users'[u].xp >= users[u].xp]_vars

\* C3: in every reachable store state, every user has
\* level = floor(xp / 100) + 1.
LevelIsXpOver100Plus1 ==
  \A u \in DOMAIN users :
    /\ (users[u].level - 1) * 100 <= users[u].xp
    /\ users[u].xp < users[u].level * 100

\* A user has reached level 2 in the run, by a completion that reported it
LevelUpStored ==
  \E r \in Requests :
    /\ Answered(r)
    /\ req[r].result.new_level = 2
    /\ users[req[r].user_id].level = 2
    /\ users[req[r].user_id].xp >= 100

\* The streak the profile and the date call for
StreakCalledFor(user, today) ==
  IF user.last_practice_date = None THEN 1
  ELSE LET diff == DayOfString(today) - DayOfString(user.last_practice_date)
       IN  CASE diff = 0 -> user.streak
             [] diff = 1 -> user.streak + 1
             [] diff > 1 -> 1

\* C4: the date a completion is graded with is the current date; the streak
\* it writes follows from the last_practice_date and streak it read and from
\* that date alone (no prior date: 1; same day: unchanged; the day after:
\* plus 1; a longer gap: 1), passed or failed; and the last_practice_date it
\* writes is that date.
StreakFollowsDates ==
  [][\A r \in Requests :
       /\ GradeStep(r) => req'[r].now = isoformat(DateOfDay(clock))
       /\ WriteStep(r) =>
            /\ users'[req[r].user_id].last_practice_date = req[r].now
            /\ users'[req[r].user_id].streak = StreakCalledFor(req[r].user, req[r].now)]_vars

\* The request was graded the day after the last practice it read
DayAfterPractice(r) ==
  /\ req[r].user.last_practice_date # None
  /\ DayOfString(req[r].now) - DayOfString(req[r].user.last_practice_date) = 1

\* A failed quiz, graded the day after the last practice, raises the streak
FailedQuizRaisesStreak ==
  \E r \in Requests :
    /\ Graded(r)
    /\ ~req[r].result.passed
    /\ DayAfterPractice(r)
    /\ req[r].update_data.streak = req[r].user.streak + 1

\* C5: the streak_bonus a completion returns is min(2 * new streak, 20), on
\* the streak already incremented, when it is graded the day after the last
\* practice, and 0 in every other case; it is never more than 20.
BonusOnlyTheDayAfter ==
  \A r \in Requests :
    Graded(r) =>
      LET bonus == req[r].result.streak_bonus
          twice == 2 * (req[r].user.streak + 1)
      IN  /\ bonus <= 20
          /\ DayAfterPractice(r) => bonus = (IF twice < 20 THEN twice ELSE 20)
          /\ ~DayAfterPractice(r) => bonus = 0

\* The cap bites: the new streak is 11 or more and the bonus is 20
BonusCapped ==
  \E r \in Requests :
    /\ Graded(r)
    /\ DayAfterPractice(r)
    /\ req[r].update_data.streak >= 11
    /\ req[r].result.streak_bonus = 20

\* A completion of the user has written the profile
HasCompleted(u) ==
  \E r \in Requests :
    /\ IsCompletion(r)
    /\ req[r].user_id = u
    /\ req[r].pc \in {"save_progress", "insert_progress", "count_completed", "award_find",
                     "award_update", "done"}
    /\ (req[r].pc = "done" => req[r].status = 200)

\* C6: a user's streak is 0 only while no completion of the user has
\* written the profile; from the first one on it is at least 1.
StreakZeroOnlyBeforeFirst ==
  \A u \in DOMAIN users :
    /\ users[u].streak >= 0
    /\ users[u].streak = 0 => (~HasCompleted(u) /\ users[u].last_practice_date = None)
    /\ (HasCompleted(u) \/ users[u].last_practice_date # None) => users[u].streak >= 1

\* Both requests were completions of the user who had just registered, and
\* the user's streak is 1
FirstCompletionsGiveOne ==
  \E u \in DOMAIN users :
    /\ u \notin DOMAIN SeedDb.users
    /\ \A r \in Requests : Answered(r) /\ req[r].user_id = u
    /\ users[u].streak = 1

\* C7: for every lesson with at least one graded item and every submission,
\* total is the number of items of the lesson (not the length of the
\* submission), the score is floor(correct * 100 / total) and lies in 0..100,
\* and passed is true exactly when the score is at least 70.
ScoreIsFloorOfPercent ==
  \A r \in Requests :
    (req[r].pc = "scored" /\ Len(req[r].content) >= 1) =>
      LET total == req[r].outcome.total
          correct == req[r].outcome.correct
      IN  /\ req[r].outcome.error = ""
          /\ total = Len(req[r].content)
          /\ req[r].outcome.score_pct * total <= correct * 100
          /\ correct * 100 < (req[r].outcome.score_pct + 1) * total
          /\ req[r].outcome.score_pct \in 0..100
          /\ req[r].outcome.passed <=> (req[r].outcome.score_pct >= 70)

\* C8: xp_earned is base + streak_bonus, with base the lesson's xp_reward for
\* a passed quiz and floor(xp_reward / 2) for a failed one, and the xp the
\* request writes is the xp it read plus xp_earned.
XpEarnedIsBasePlusBonus ==
  [][\A r \in Requests :
       WriteStep(r) =>
         LET reward == LessonOfRequest(r).xp_reward
             base   == req[r].result.xp_earned - req[r].result.streak_bonus
         IN  /\ req[r].result.passed => base = reward
             /\ ~req[r].result.passed => (2 * base <= reward /\ reward < 2 * base + 2)
             /\ users'[req[r].user_id].xp = req[r].user.xp + req[r].result.xp_earned]_vars

\* A failed quiz of a lesson worth 15 has earned 7, which is in the store
FailedFifteenEarnsSeven ==
  \E r \in Requests :
    /\ Answered(r)
    /\ ~req[r].result.passed
    /\ req[r].result.streak_bonus = 0
    /\ req[r].result.xp_earned = 7
    /\ users[req[r].user_id].xp = XpAtStart(SeedDb, req[r].user_id) + 7

\* C9: a failed completion that read hearts > 0 writes hearts - 1; one that
\* read hearts = 0 leaves the stored hearts as they are, and is graded,
\* awarded xp and recorded all the same; a passed one leaves the stored
\* hearts as they are.
FailedQuizCostsOneHeart ==
  [][\A r \in Requests :
       /\ WriteStep(r) =>
            LET u == req[r].user_id
                read == req[r].user.hearts
            IN  /\ (~req[r].result.passed /\ read > 0) => users'[u].hearts = read - 1
                /\ (~req[r].result.passed /\ read = 0) =>
                     /\ users'[u].hearts = users[u].hearts
                     /\ req[r].result.xp_earned > 0
                     /\ users'[u].xp = req[r].user.xp + req[r].result.xp_earned
                /\ req[r].result.passed => users'[u].hearts = users[u].hearts
       /\ (IsCompletion(r) /\ req[r].pc \in {"save_progress", "insert_progress"}
             /\ req'[r].pc = "count_completed") =>
            \E i \in 1..Len(lesson_progress') : LET d == lesson_progress'[i] IN
              /\ d.user_id = req[r].user_id
              /\ d.lesson_id = req[r].lesson_id
              /\ d.score = req[r].score_pct
              /\ d.completed = req[r].result.passed]_vars

\* Both requests failed for "u1", one after the other, the second having
\* read hearts 0: both were answered with xp, and the stored hearts are 0
FailedWithNoHeartLeft ==
  /\ \A r \in Requests : Answered(r) /\ req[r].user_id = "u1" /\ ~req[r].result.passed
  /\ users["u1"].hearts = 0
  /\ users["u1"].xp = XpAtStart(SeedDb, "u1") + XpEarned(Requests, "u1")
  /\ \A r \in Requests : req[r].result.xp_earned > 0

\* C10: in every reachable state every user's hearts are in 0..5, and they
\* are 5 for a user who has not practised yet.
HeartsInRange ==
  \A u \in DOMAIN users :
    /\ users[u].hearts \in 0..5
    /\ users[u].last_practice_date = None => users[u].hearts = 5

\* A refill and a failed completion of the same user have both finished, and
\* the stored hearts are 0
RefillThenFail ==
  \E r, q \in Requests :
    /\ req[r].pc = "done" /\ req[r].op = "refill_hearts"
    /\ Answered(q) /\ ~req[q].result.passed
    /\ req[q].user_id = req[r].user_id
    /\ users[req[r].user_id].hearts = 0

\* C11: an achievement id that is in a user's achievements is in them in
\* every later state, also when requests of the user interleave the read
\* and the write of check_and_award_achievement.
AchievementsStay ==
  [][\A u \in DOMAIN users :
       \A i \in 1..Len(users[u].achievements) :
         Contains(users'[u].achievements, users[u].achievements[i])]_vars

\* C12: in every reachable state a user's achievements hold each id at most
\* once, also when a threshold already met is evaluated again by later or
\* concurrent requests.
NoAchievementTwice ==
  \A u \in DOMAIN users :
    \A i, j \in 1..Len(users[u].achievements) :
      users[u].achievements[i] = users[u].achievements[j] => i = j

\* Two completions of "u1" with every answer right have been answered, the
\* streak being 7 or more: perfect-lesson was met twice in the run and
\* streak-7 was met again
ThresholdsMetAgain ==
  /\ \A r \in Requests :
       /\ Answered(r)
       /\ req[r].user_id = "u1"
       /\ req[r].result.correct = req[r].result.total
  /\ users["u1"].streak >= 7
  /\ Contains(users["u1"].achievements, "perfect-lesson")
  /\ Contains(users["u1"].achievements, "streak-7")

\* C13: when a complete_lesson request that overlaps no other request of the
\* same user returns, the stored achievements hold streak-3 / streak-7 /
\* streak-30 when the new streak is at least 3 / 7 / 30, xp-100 / xp-500 /
\* xp-1000 when the new xp is at least 100 / 500 / 1000, level-5 / level-10
\* when the new level is at least 5 / 10, and perfect-lesson when the score
\* of the attempt was 100
AwardsOnReturn ==
  [][\A r \in Requests :
       (/\ InFlight(r)
        /\ req[r].op = "complete_lesson"
        /\ req'[r].pc = "done"
        /\ req'[r].status = 200)
       => LET u == users'[req[r].user_id]
              Has(id) == Contains(u.achievements, id)
          IN  /\ u.streak = req[r].update_data.streak
              /\ u.xp = req[r].update_data.xp
              /\ u.level = req[r].update_data.level
              /\ u.streak >= 3 => Has("streak-3")
              /\ u.streak >= 7 => Has("streak-7")
              /\ u.streak >= 30 => Has("streak-30")
              /\ u.xp >= 100 => Has("xp-100")
              /\ u.xp >= 500 => Has("xp-500")
              /\ u.xp >= 1000 => Has("xp-1000")
              /\ u.level >= 5 => Has("level-5")
              /\ u.level >= 10 => Has("level-10")
              /\ req[r].score_pct = 100 => Has("perfect-lesson")]_vars

\* A perfect attempt of "u1" has returned on the thirtieth day of their
\* streak and has brought their xp to 1000 or more: streak-30, xp-1000 and
\* perfect-lesson, which they did not have, are unlocked, with every
\* achievement of a lower threshold
ThirtiethDayPerfect ==
  \E r \in Requests :
    /\ Answered(r)
    /\ req[r].user_id = "u1"
    /\ req[r].result.correct = req[r].result.total
    /\ users["u1"].streak = 30
    /\ users["u1"].xp >= 1000
    /\ users["u1"].level >= 10
    /\ \A id \in {"streak-30", "xp-1000", "perfect-lesson"} :
         /\ ~Contains(NearMonthDb.users["u1"].achievements, id)
         /\ Contains(users["u1"].achievements, id)
    /\ \A id \in {"streak-3", "streak-7", "xp-100", "xp-500", "level-5", "level-10"} :
         Contains(users["u1"].achievements, id)

\* No request is in flight
Quiescent == \A r \in Requests : ~InFlight(r)

\* C14: in every state with no request in flight, a user who has a
\* completion record with completed = true has first-lesson unlocked
FirstLessonUnlocked ==
  Quiescent =>
    \A u \in DOMAIN users :
      (\E i \in 1..Len(lesson_progress) :
         lesson_progress[i].user_id = u /\ lesson_progress[i].completed)
      => Contains(users[u].achievements, "first-lesson")

\* C15: in every state with no request in flight, a user whose
\* languages_learning holds 3 or more distinct codes has multi-language
\* unlocked
MultiLanguageUnlocked ==
  Quiescent =>
    \A u \in DOMAIN users :
      LET codes == {users[u].languages_learning[i] :
                      i \in 1..Len(users[u].languages_learning)}
      IN  Cardinality(codes) >= 3 => Contains(users[u].achievements, "multi-language")

\* The step of get_lessons: its find, and the list it returns
ListStep(r) ==
  /\ req[r].pc = "handler"
  /\ req[r].op = "get_lessons"
  /\ req'[r].pc = "done"

\* The request has answered a get_lessons of user_id for language
Listed(r, user_id, language) ==
  /\ req[r].pc = "done"
  /\ req[r].op = "get_lessons"
  /\ req[r].user_id = user_id
  /\ req[r].language = language

\* The records of lesson_id that user_id has in the store
RecordsOf(user_id, lesson_id) ==
  {k \in 1..Len(lesson_progress) :
     lesson_progress[k].user_id = user_id /\ lesson_progress[k].lesson_id = lesson_id}

\* C16: get_lessons reports locked = false for every lesson of order 1, and
\* for a lesson of order k > 1 it reports locked = false if and only if a
\* lesson of the same language with order k - 1 has a record of the user
\* with completed = true
LockedUntilPreviousCompleted ==
  [][\A r \in Requests :
       ListStep(r) =>
         LET lessons == LessonsOf(req'[r].language)
             out == req'[r].result
         IN  /\ Len(out) = Len(lessons)
             /\ \A i \in 1..Len(lessons) :
                  /\ out[i].id = lessons[i].id
                  /\ lessons[i].order = 1 => ~out[i].locked
                  /\ lessons[i].order > 1 =>
                       (~out[i].locked <=>
                          \E j \in 1..Len(lessons) :
                            /\ lessons[j].order = lessons[i].order - 1
                            /\ \E k \in RecordsOf(req[r].user_id, lessons[j].id) :
                                 lesson_progress[k].completed)]_vars

\* "u1" has passed es-basics-2 in the run and was then told that the third
\* lesson of "es" is unlocked and the fourth locked
ThirdLessonUnlocked ==
  \E r \in Requests :
    /\ Listed(r, "u1", "es")
    /\ \E k \in RecordsOf("u1", "es-basics-2") : lesson_progress[k].completed
    /\ ~req[r].result[1].locked
    /\ ~req[r].result[2].locked
    /\ ~req[r].result[3].locked
    /\ req[r].result[4].locked

\* C20: get_lessons changes neither the profiles (with their achievements)
\* nor the completion records, and for each lesson it reports completed and
\* score of the user's record of that lesson, or false and 0 when the user
\* has no record of it
GetLessonsOnlyReads ==
  [][\A r \in Requests :
       ListStep(r) =>
         LET lessons == LessonsOf(req'[r].language)
             out == req'[r].result
         IN  /\ UNCHANGED <<users, lesson_progress>>
             /\ Len(out) = Len(lessons)
             /\ \A i \in 1..Len(lessons) :
                  LET records == RecordsOf(req[r].user_id, lessons[i].id)
                  IN  IF records = {}
                      THEN ~out[i].completed /\ out[i].score = 0
                      ELSE \A k \in records :
                             /\ out[i].completed = lesson_progress[k].completed
                             /\ out[i].score = lesson_progress[k].score]_vars

\* "u1" was told of the lessons of "es": the first completed with score 75,
\* the second attempted and not completed, the third never attempted
ScoresReported ==
  \E r \in Requests :
    /\ Listed(r, "u1", "es")
    /\ req[r].result[1].completed /\ req[r].result[1].score = 75
    /\ RecordsOf("u1", "es-basics-2") # {} /\ ~req[r].result[2].completed
    /\ RecordsOf("u1", "es-basics-3") = {}
    /\ ~req[r].result[3].completed /\ req[r].result[3].score = 0

\* C19: the profile update and the completion-record upsert of one
\* complete_lesson take effect together: no get_lessons reads the records of
\* a user between the profile update of an attempt and the write of its
\* completion record
NoPartialCompletionRead ==
  [][\A r \in Requests :
       ListStep(r) =>
         \A q \in Requests \ {r} :
           ~(/\ IsCompletion(q)
             /\ req[q].user_id = req[r].user_id
             /\ req[q].pc \in {"save_progress", "insert_progress"})]_vars

\* C17: in every reachable state there is at most one completion record per
\* (user, lesson) pair
OneRecordPerPair ==
  \A i, j \in 1..Len(lesson_progress) :
    (/\ lesson_progress[i].user_id = lesson_progress[j].user_id
     /\ lesson_progress[i].lesson_id = lesson_progress[j].lesson_id)
    => i = j

\* lesson_id is a lesson of the catalog of language
InCatalog(language, lesson_id) ==
  /\ language \in DOMAIN SAMPLE_LESSONS
  /\ \E i \in 1..Len(SAMPLE_LESSONS[language]) : SAMPLE_LESSONS[language][i].id = lesson_id

\* C18: complete_lesson for an unknown language, or for a lesson id that is
\* not in the catalog of the language, answers 404 and writes nothing: the
\* request leaves the profiles (with their achievements) and the completion
\* records as they were, at its authentication and at its lookup
NotFoundChangesNothing ==
  [][\A r \in Requests :
       /\ (req[r].pc = "new" /\ req'[r].pc # "new")
          => UNCHANGED <<users, lesson_progress>>
       /\ (req[r].pc = "handler" /\ req[r].op = "complete_lesson" /\ req'[r].pc # "handler")
          => IF InCatalog(req'[r].language, req'[r].lesson_id)
             THEN req'[r].pc = "update_user"
             ELSE /\ req'[r].pc = "done"
                  /\ req'[r].status = 404
                  /\ UNCHANGED <<users, lesson_progress>>]_vars

\* Two requests were answered 404, one for a language that does not exist
\* and one for a lesson of another language, and the store is as it was
BothNotFound ==
  \E r, q \in Requests :
    /\ req[r].pc = "done" /\ req[r].op = "complete_lesson" /\ req[r].status = 404
    /\ req[r].language = "xx" /\ req[r].lesson_id = "es-basics-1"
    /\ req[q].pc = "done" /\ req[q].op = "complete_lesson" /\ req[q].status = 404
    /\ req[q].language = "es" /\ req[q].lesson_id = "fr-basics-1"
    /\ users = SeedDb.users @@ ("u2" :> NewUser("u2", "u2@x.org"))
    /\ lesson_progress = SeedDb.lesson_progress

\* C21: complete_lesson returns new_level equal to the new level exactly
\* when the new level is greater than the level stored when the request
\* was authenticated, and no new_level (0) otherwise
NewLevelOnlyWhenRaised ==
  [][\A r \in Requests :
       /\ (req[r].pc = "new" /\ req'[r].pc = "handler")
          => req'[r].user.level = users[req'[r].user_id].level
       /\ GradeStep(r)
          => LET new == req'[r].update_data.level
                 old == req[r].user.level
             IN  /\ new = (req'[r].update_data.xp \div XP_PER_LEVEL) + 1
                 /\ new > old => req'[r].result.new_level = new
                 /\ new <= old => req'[r].result.new_level = 0]_vars

\* Of two attempts of one user that have returned, one raised the level
\* from 1 to 2 and reported 2, and the other reported no new level
LevelUpReportedOnce ==
  \E r, q \in Requests :
    /\ Answered(r) /\ Answered(q)
    /\ req[r].user_id = req[q].user_id
    /\ req[r].result.new_level = 2
    /\ req[q].result.new_level = 0
    /\ users[req[r].user_id].level = 2

\* C22: answers are compared position by position after lower-casing and
\* trimming both sides: an answer counts when it is the expected answer
\* verbatim or typed in other case with blanks around it, at a position the
\* lesson has; answers beyond the items of the lesson are ignored, items
\* with no answer count as incorrect, and correct never exceeds total
AnswersComparedByPosition ==
  [][\A r \in Requests :
       GradeStep(r) =>
         LET course == SAMPLE_LESSONS[req'[r].language]
             content == course[CHOOSE k \in 1..Len(course) :
                                 course[k].id = req'[r].lesson_id].content
             answers == req'[r].answers
             right == {i \in 1..Len(content) :
                         /\ i <= Len(answers)
                         /\ answers[i] \in {content[i], Typed(content[i])}}
         IN  /\ req'[r].result.total = Len(content)
             /\ req'[r].result.correct = Cardinality(right)
             /\ req'[r].result.correct <= req'[r].result.total]_vars

\* A graded submission with one answer more than the lesson has items, the
\* second answer typed in upper case with blanks around it, and every item
\* counted right
ExtraAnswerIgnored ==
  \E r \in Requests :
    /\ Graded(r)
    /\ Len(req[r].answers) = Len(LessonOfRequest(r).content) + 1
    /\ req[r].answers[2] = Typed(LessonOfRequest(r).content[2])
    /\ req[r].answers[2] # LessonOfRequest(r).content[2]
    /\ req[r].result.correct = req[r].result.total

\* C23: for a lesson with no graded item the score is computed with total
\* taken as 1: no division by zero, and the request does not crash
ZeroItemsScoredAsOne ==
  \A r \in Requests :
    (req[r].pc = "scored" /\ req[r].content = <<>>)
    => /\ req[r].outcome.error = ""
       /\ req[r].outcome.total = 1

\* The documents of lesson_progress that are not of user_id, in their order
RecordsOfOthers(coll, user_id) == SelectSeq(coll, LAMBDA d : d.user_id # user_id)

\* C24: every step of a request of one user (complete_lesson,
\* start_language, refill_hearts and the awards they trigger) leaves the
\* profile, the achievements and the completion records of every other user
\* unchanged
OtherUsersUntouched ==
  [][\A r \in Requests :
       req'[r] # req[r] =>
         LET u == req'[r].user_id
         IN  /\ DOMAIN users' = DOMAIN users
             /\ \A v \in DOMAIN users \ {u} : users'[v] = users[v]
             /\ RecordsOfOthers(lesson_progress', u) = RecordsOfOthers(lesson_progress, u)]_vars

\* A completion of "u1" and a completion of "u2" of the same lesson have both
\* returned: each has their own record of it, their xp and their awards
TwoLearnersOneLesson ==
  /\ Answered("r1") /\ Answered("r2")
  /\ req["r1"].user_id = "u1" /\ req["r2"].user_id = "u2"
  /\ req["r2"].result.correct = req["r2"].result.total
  /\ RecordsOf("u2", "es-basics-1") # {}
  /\ \E k \in RecordsOf("u1", "es-basics-1") : lesson_progress[k].score = 0
  /\ Contains(users["u2"].achievements, "first-lesson")
  /\ Contains(users["u1"].achievements, "streak-3")
  /\ users["u2"].xp > 0

\* The module is loaded
Loaded == req["import"].pc = "loaded"

\* C25: the loop that fills the catalog ends, and then every language of
\* LANGUAGES has exactly 6 lessons, with order 1..6 in list order, each with
\* an id no other lesson of the language has and with at least one graded
\* item; these are the lessons the handlers read
CatalogBackfilled ==
  /\ <>Loaded
  /\ [](Loaded =>
         LET lessons == req["import"].lessons
         IN  /\ DOMAIN lessons = {LANGUAGES[i] : i \in 1..Len(LANGUAGES)}
             /\ \A code \in DOMAIN lessons :
                  /\ Len(lessons[code]) = 6
                  /\ \A k \in 1..Len(lessons[code]) :
                       /\ lessons[code][k].order = k
                       /\ Len(lessons[code][k].content) >= 1
                       /\ \A j \in 1..Len(lessons[code]) :
                            lessons[code][j].id = lessons[code][k].id => j = k
                  /\ lessons[code] = SAMPLE_LESSONS[code])

\* The module is loaded: "es" kept its three lessons and got three more,
\* and "zh", which had none, got six
CoursesFilled ==
  /\ Loaded
  /\ req["import"].lessons["es"][3].id = "es-basics-3"
  /\ req["import"].lessons["es"][4].id = "es-phrases-4"
  /\ "zh" \notin DOMAIN LITERAL_LESSONS
  /\ req["import"].lessons["zh"][1].id = "zh-greetings-1"
  /\ req["import"].lessons["zh"][6].id = "zh-travel-6"

\* C26: in every reachable state an unlocked xp-100 / xp-500 / xp-1000
\* implies a stored xp of at least 100 / 500 / 1000, and an unlocked
\* level-5 / level-10 a stored level of at least 5 / 10, also when
\* completions of the same user overlap
AwardsMatchMetrics ==
  \A u \in DOMAIN users :
    LET user == users[u]
        has(id) == Contains(user.achievements, id)
    IN  /\ has("xp-100") => user.xp >= 100
        /\ has("xp-500") => user.xp >= 500
        /\ has("xp-1000") => user.xp >= 1000
        /\ has("level-5") => user.level >= 5
        /\ has("level-10") => user.level >= 10

\* The profiles of user_id that the store has held up to now, for a request
\* that has not written yet: a request writes the streak once, so the store
\* has held the profile of Init and at most one other, which it still holds
StoredSoFar(user_id) == {(SeedDb.users @@ ("u2" :> NewUser("u2", "u2@x.org")))[user_id], users[user_id]}

\* The highest streak that user_id has had stored for a day of practice
\* before `day` (0 when there is none)
StreakBefore(user_id, day) ==
  LET earlier == {p \in StoredSoFar(user_id) :
                    /\ p.last_practice_date # None
                    /\ DayOfString(p.last_practice_date) < day}
  IN  IF earlier = {} THEN 0
      ELSE CHOOSE s \in {p.streak : p \in earlier} : \A p \in earlier : p.streak <= s

\* C27: for a user and a calendar date, the stored streak rises by at most 1
\* over all completions graded on that date: every such completion, whatever
\* profile it read and whenever its write lands, stores a streak of at most 1
\* more than the streak the user had for their practice before that date
StreakRisesOncePerDate ==
  [][\A r \in Requests :
       WriteStep(r) =>
         users'[req[r].user_id].streak
           <= StreakBefore(req[r].user_id, DayOfString(req[r].now)) + 1]_vars

\* Two completions of u1 graded on the same date from the same profile: one
\* has written the streak raised by 1, the other is about to write it again
TwoCompletionsOneDate ==
  /\ IsCompletion("r1") /\ req["r1"].pc = "save_progress" /\ req["r1"].user_id = "u1"
  /\ Graded("r2") /\ req["r2"].user_id = "u1"
  /\ req["r1"].now = req["r2"].now
  /\ req["r2"].user.streak = SeedDb.users["u1"].streak
  /\ req["r2"].update_data.streak = SeedDb.users["u1"].streak + 1
  /\ users["u1"].streak = SeedDb.users["u1"].streak + 1

\* C28: complete_lesson does not consult the lock state: a submission for a
\* lesson that get_lessons reports as locked is graded and awarded XP (at
\* least half of the lesson's reward, added to the xp read), and when the
\* request saves its record the collection holds a record of the lesson with
\* completed as graded
LockIgnored ==
  [][\A r \in Requests :
       /\ (req[r].pc = "handler" /\ req[r].op = "complete_lesson" /\ req'[r] # req[r]) =>
            LET lessons == LessonsOf(req'[r].language)
                k == FindLesson(lessons, req'[r].lesson_id)
            IN  (/\ k # 0
                 /\ LessonList(lesson_progress, req[r].user_id, req'[r].language)[k].locked)
                  => /\ req'[r].pc = "update_user"
                     /\ req'[r].result.xp_earned >= lessons[k].xp_reward \div 2
                     /\ req'[r].result.xp_earned > 0
                     /\ req'[r].update_data.xp = req[r].user.xp + req'[r].result.xp_earned
       /\ (/\ req[r].pc \in {"save_progress", "insert_progress"}
           /\ req'[r].pc \notin {"save_progress", "insert_progress"}) =>
            \E k \in 1..Len(lesson_progress') :
              /\ lesson_progress'[k].user_id = req[r].user_id
              /\ lesson_progress'[k].lesson_id = req[r].lesson_id
              /\ lesson_progress'[k].completed = req[r].result.passed
              /\ lesson_progress'[k].score = req[r].score_pct]_vars

\* "u2" has a record with completed = true of es-basics-2, of order 2, and no
\* record with completed = true of a lesson of order 1: they have XP from a
\* lesson that get_lessons still reports as locked
SecondLessonBeforeFirst ==
  /\ \E k \in RecordsOf("u2", "es-basics-2") : lesson_progress[k].completed
  /\ \A i \in 1..Len(ES_LESSONS) :
       ES_LESSONS[i].order = 1 =>
         \A k \in RecordsOf("u2", ES_LESSONS[i].id) : ~lesson_progress[k].completed
  /\ LessonList(lesson_progress, "u2", "es")[2].locked
  /\ LessonList(lesson_progress, "u2", "es")[2].completed
  /\ users["u2"].xp >= 15

\* C29: the lock state is not monotonic: when a request saves a failed
\* re-attempt of a lesson of order k - 1, the record of that lesson becomes
\* completed = false, and if no other lesson of order k - 1 is completed,
\* get_lessons from then on reports every lesson of order k as locked,
\* whether or not the user has completed that lesson itself
FailedRetryLocksNext ==
  [][\A r \in Requests :
       (/\ req[r].pc = "save_progress"
        /\ req'[r].pc \notin {"save_progress", "insert_progress"}
        /\ ~req[r].result.passed) =>
         LET lessons == LessonsOf(req[r].language)
             k == FindLesson(lessons, req[r].lesson_id)
             before == LessonList(lesson_progress, req[r].user_id, req[r].language)
             after == LessonList(lesson_progress', req[r].user_id, req[r].language)
         IN  /\ ~after[k].completed
             /\ (\A j \in (1..Len(lessons)) \ {k} :
                   lessons[j].order = lessons[k].order => ~before[j].completed)
                  => \A i \in 1..Len(lessons) :
                       lessons[i].order = lessons[k].order + 1 => after[i].locked]_vars

\* "u1" passed es-basics-2 while es-basics-1 was completed, and has now
\* failed es-basics-1 again: es-basics-1 is not completed any more, and
\* es-basics-2 is completed and locked
CompletedLessonLockedAgain ==
  \E r \in Requests :
    /\ IsCompletion(r) /\ req[r].pc = "count_completed"
    /\ req[r].user_id = "u1" /\ req[r].lesson_id = "es-basics-1"
    /\ ~req[r].result.passed
    /\ LET out == LessonList(lesson_progress, "u1", "es")
       IN  /\ ~out[1].completed
           /\ out[2].completed
           /\ out[2].locked
           /\ ~out[3].locked

\* C30: in every reachable state a user's last_practice_date is set if and
\* only if the user's streak is at least 1
PractisedIffOnStreak ==
  \A u \in DOMAIN users :
    (users[u].last_practice_date # None) <=> (users[u].streak >= 1)

\* "u2", who had never practised, has a date of practice and a streak of 1
\* from a first completion, while another completion of theirs that read the
\* profile as registered (no date, streak 0) is about to write
FirstPracticeWritten ==
  /\ users["u2"].last_practice_date # None
  /\ users["u2"].streak = 1
  /\ \E r \in Requests :
       /\ Graded(r) /\ req[r].user_id = "u2"
       /\ req[r].user.last_practice_date = None
       /\ req[r].user.streak = 0
  /\ users["u1"].streak >= 1

\* C31: a refill_hearts that has completed is not undone by a completion
\* that read the profile before the refill: when a refill and a failing
\* complete_lesson of the same user have both finished, the stored hearts
\* are 4 or 5
RefillNotUndone ==
  \A r, q \in Requests :
    (/\ req[r].pc = "done" /\ req[r].op = "refill_hearts" /\ req[r].status = 200
     /\ Answered(q) /\ ~req[q].result.passed
     /\ req[q].user_id = req[r].user_id)
      => users[req[r].user_id].hearts \in {4, 5}

\* C32: refill_hearts sets the user's hearts to 5 and leaves every other
\* field of the profile (xp, level, streak, last_practice_date, languages,
\* achievements), every other profile and every completion record unchanged:
\* its update_one changes hearts only, and its other steps change nothing
RefillOnlyFillsHearts ==
  [][\A r \in Requests :
       (req'[r] # req[r] /\ req'[r].op = "refill_hearts") =>
         /\ lesson_progress' = lesson_progress
         /\ IF req[r].pc = "update_user"
            THEN /\ users' = [users EXCEPT ![req[r].user_id] = [@ EXCEPT !.hearts = 5]]
                 /\ req'[r].pc = "done"
                 /\ req'[r].status = 200
            ELSE users' = users]_vars

\* A refill of "u1", who had 1 heart, has returned while a completion of "u1"
\* that was graded before it has written its profile: the hearts are 5 and
\* the xp is the one the completion wrote
RefilledAfterCompletion ==
  \E r, q \in Requests :
    /\ req[r].pc = "done" /\ req[r].op = "refill_hearts" /\ req[r].user_id = "u1"
    /\ IsCompletion(q) /\ req[q].pc = "save_progress" /\ req[q].user_id = "u1"
    /\ SeedDb.users["u1"].hearts = 1
    /\ users["u1"].hearts = 5
    /\ users["u1"].xp = req[q].update_data.xp
    /\ users["u1"].xp > SeedDb.users["u1"].xp
=============================================================================
